---- MODULE Spec2Model ----
(***************************************************************************)
(* A model of the rulit rule engine: the ruleset builder, compile(), and   *)
(* the two run loops runSync (engine.run) and runAsync (engine.runAsync).  *)
(*                                                                         *)
(* JavaScript runs one job at a time, so a synchronous call is one atomic  *)
(* step of the model; an async function is atomic between two awaits.      *)
(***************************************************************************)
EXTENDS Integers, Sequences, FiniteSets, TLC

\* ----------------------------------------------------------------- bounds

\* The number of rules finalized on the ruleset builder.
MaxRules == 2

\* The number of timer ticks a pending asynchronous action may wait.
MaxDelay == 1

\* How deep the objects handed to mergeEffects nest below their top level.
MaxDepth == 1

\* ------------------------------------------------------- JavaScript values

\* A value is tagged with its kind: a number, an array, a plain object
\* (a function from its own keys to values) or undefined.
Num(n) == [t |-> "num", v |-> n]
Arr(s) == [t |-> "arr", v |-> s]
Obj(f) == [t |-> "obj", v |-> f]
Str(s) == [t |-> "str", v |-> s]
Undef == [t |-> "undef", v |-> 0]
Null == [t |-> "null", v |-> 0]
EmptyObj == Obj([k \in {} |-> Undef])

\* An object that is not a plain object (a Date, a Map, a class instance)
\* with its own enumerable properties.
Inst(f) == [t |-> "inst", v |-> f]

\* A Date: an object without own enumerable properties.
DateValue == Inst([k \in {} |-> Undef])

\* A plain object: created by {} or Object.create(null).
IsPlainObject(value) == value.t = "obj"

\* value && typeof value === "object" && !Array.isArray(value)
IsNonArrayObject(value) == value.t \in {"obj", "inst"}

\* patch && typeof patch === "object"
IsObject(value) == value.t \in {"obj", "arr", "inst"}

\* Object.keys of an object; an array patch has no keys in the model.
Keys(o) == IF o.t \in {"obj", "inst"} THEN DOMAIN o.v ELSE {}

\* target[key] (undefined when the key is absent)
Get(o, k) == IF k \in Keys(o) THEN o.v[k] ELSE Undef

\* Object.assign(target, patch): the target object with the patch's own
\* properties set on it.
ObjectAssign(target, patch) ==
    [t |-> target.t,
     v |-> [k \in Keys(target) \cup Keys(patch) |->
              IF k \in Keys(patch) THEN patch.v[k] ELSE target.v[k]]]

\* deepMerge that replaces a patched field whole.
deepMergeShallow(target, patch) == ObjectAssign(target, patch)

\* deepMerge: a patch value that is a non-array object is merged into the
\* target field, which is first set to {} unless it is a non-array object
\* itself; any other patch value is assigned.
RECURSIVE deepMerge(_, _)
deepMerge(target, patch) ==
    [t |-> target.t,
     v |-> [k \in Keys(target) \cup Keys(patch) |->
              IF k \notin Keys(patch) THEN target.v[k]
              ELSE IF IsNonArrayObject(patch.v[k])
                   THEN deepMerge(IF IsNonArrayObject(Get(target, k))
                                  THEN target.v[k] ELSE EmptyObj,
                                  patch.v[k])
                   ELSE patch.v[k]]]

mergeEffects(target, patch, strategy) ==
    IF strategy = "assign" THEN ObjectAssign(target, patch)
    ELSE deepMerge(target, patch)

\* structuredClone: a new object with the same content. Values of the model
\* carry no identity, so the copy is the content; the identity is the new
\* heap reference the caller allocates for it.
cloneEffects(effects) == effects

\* effects.flags.push(x), the in-place mutation the modelled actions make
PushFlag(effects, x) ==
    Obj([k \in Keys(effects) |->
            IF k = "flags" THEN Arr(Append(effects.v[k].v, Str(x)))
            ELSE effects.v[k]])

\* ------------------------------------------------------------ the inputs

\* The object the default-effects factory returns on each call.
DefaultEffects ==
    Obj([flags |-> Arr(<<>>), stats |-> Obj([count |-> Num(0)])])

\* The patch a patching action returns.
ActionPatch == Obj([stats |-> Obj([hits |-> Num(1)])])

\* The patch a second patching action returns.
CountPatch == Obj([stats |-> Obj([count |-> Num(1)])])

\* Rule ids: the k-th rule() call of a behaviour names its rule RuleIds[k].
RuleIds == <<"r1", "r2", "r3", "r4", "r5", "r6">>

Priorities == {0, 1}

\* The message of an error a user action throws or rejects with.
Boom == "Error: boom"
AsyncMisuse == "Error: Async rule action detected. Use runAsync()."
NoError == "none"

\* The errors the validators and a faulty condition of the runs throw, and
\* the ones the builder throws.
FactsInvalid == "Error: missing user"
EffectsInvalid == "Error: invalid effects"
CondBoom == "Error: bad condition"
CompileError == "Error: defaultEffects() is required before compile()."
EndError == "Error: then() is required before end()."

\* A validator is described by what it does with the value it is given:
\* "pass" returns, "reject" throws, "rejectFlagged" (effects) throws when
\* effects.flags is not empty; "unset" is no validator.
Unset == "unset"
FactsValidators == {"pass", "reject"}
EffectsValidators == {"pass", "reject", "rejectFlagged"}

\* Whether the effects validator throws on `effects`.
EffectsRejected(validator, effects) ==
    \/ validator = "reject"
    \/ validator = "rejectFlagged" /\ effects.v["flags"].v # <<>>

\* A second default-effects factory: the object it returns on each call.
OtherEffects ==
    Obj([flags |-> Arr(<<Str("init")>>), stats |-> Obj([count |-> Num(0)])])

\* Telemetry adapters a builder may be given.
Adapters == {"otel"}

\* A user action is described by what it does when called with its context:
\*   pre   pushes the rule id to ctx.effects.flags before anything else
\*   note  calls ctx.trace.note("note")
\*   kind  "return": returns `patch`; "throw": throws Boom;
\*         "promise": returns a promise (an async function: everything up to
\*         here ran synchronously, the rest after its first await)
\*   late  (promise) pushes the rule id to ctx.effects.flags after its await
\*   ok    (promise) TRUE: resolves with `patch`; FALSE: rejects with Boom
ActMutate ==
    [kind |-> "return", pre |-> TRUE, note |-> TRUE, late |-> FALSE,
     ok |-> TRUE, patch |-> ActionPatch]
ActPatch ==
    [kind |-> "return", pre |-> FALSE, note |-> FALSE, late |-> FALSE,
     ok |-> TRUE, patch |-> CountPatch]
ActThrow ==
    [kind |-> "throw", pre |-> TRUE, note |-> TRUE, late |-> FALSE,
     ok |-> FALSE, patch |-> Undef]
ActAsync ==
    [kind |-> "promise", pre |-> TRUE, note |-> FALSE, late |-> TRUE,
     ok |-> TRUE, patch |-> ActionPatch]
ActAsyncReject ==
    [kind |-> "promise", pre |-> FALSE, note |-> FALSE, late |-> TRUE,
     ok |-> FALSE, patch |-> Undef]

\* RuleMeta: enabled is "unset", "true" or "false"; tags is the tag list
\* (absent tags read as [] at getSkipReason).
NoMeta == [enabled |-> "unset", tags |-> <<>>]
Disabled == [enabled |-> "false", tags |-> <<>>]
Tagged == [enabled |-> "unset", tags |-> <<"vip">>]
TaggedBeta == [enabled |-> "unset", tags |-> <<"beta">>]

\* A condition is described by its label and the result its predicate gives
\* on the facts of the run.
Cond(label, result) == [label |-> label, result |-> result]
CT == Cond("yes", TRUE)
CF == Cond("no", FALSE)

\* A condition whose test throws CondBoom instead of returning.
CX == Cond("bad", FALSE)
Throws(c) == c.label = "bad"

\* A rule builder on which neither then() nor thenAsync() was called.
NoAction ==
    [kind |-> "none", pre |-> FALSE, note |-> FALSE, late |-> FALSE,
     ok |-> FALSE, patch |-> Undef]

\* What a rule builder holds when end() is called on it.
RuleShapes ==
    { [conditions |-> <<CT>>, action |-> ActMutate, meta |-> NoMeta],
      [conditions |-> <<CT, CF, CT>>, action |-> ActMutate, meta |-> NoMeta],
      [conditions |-> <<>>, action |-> ActThrow, meta |-> NoMeta],
      [conditions |-> <<CT>>, action |-> ActAsync, meta |-> NoMeta],
      [conditions |-> <<CT>>, action |-> ActAsyncReject, meta |-> NoMeta],
      [conditions |-> <<CT>>, action |-> ActMutate, meta |-> Disabled],
      [conditions |-> <<CT>>, action |-> ActMutate, meta |-> Tagged],
      [conditions |-> <<CT, CT>>, action |-> ActPatch, meta |-> TaggedBeta] }

TagFilters == { <<>>, <<"vip">> }

\* RunOptions, every combination (absent tag filters read as []).
RunOptions ==
    [activation : {"all", "first"},
     effectsMode : {"mutable", "immutable"},
     mergeStrategy : {"assign", "deep"},
     rollbackOnError : BOOLEAN,
     includeTags : TagFilters,
     excludeTags : TagFilters]

\* ------------------------------------------------ conditions and operators

\* A condition as op.ts sees it: kind "atomic" is a condition(label, test)
\* whose test gives `result` on the facts of the evaluation; "and", "or"
\* and "not" hold their child conditions. An argument that is no function is
\* a label: kind "label" a string, "labelObject" an object {label}.
Atom(label, result) ==
    [kind |-> "atomic", label |-> label, result |-> result, children |-> <<>>]
LabelArg(label) ==
    [kind |-> "label", label |-> label, result |-> FALSE, children |-> <<>>]
LabelObjectArg(label) ==
    [kind |-> "labelObject", label |-> label, result |-> FALSE,
     children |-> <<>>]

\* typeof x === "function"
IsFunction(x) == x.kind \notin {"label", "labelObject"}

\* resolveLabel(defaultLabel, label); NoLabel is a missing argument. The
\* empty string is falsy.
NoLabel == LabelArg("")
resolveLabel(defaultLabel, label) ==
    IF label.kind = "label" /\ label.label = "" THEN defaultLabel
    ELSE label.label

\* splitArgs taking the first argument for a label whatever it is.
splitArgsDropFirst(defaultLabel, args) ==
    IF Len(args) = 0 THEN [label |-> defaultLabel, conditions |-> <<>>]
    ELSE [label |-> IF IsFunction(args[1]) THEN defaultLabel
                    ELSE resolveLabel(defaultLabel, args[1]),
          conditions |-> Tail(args)]

\* splitArgs(defaultLabel, args)
splitArgs(defaultLabel, args) ==
    IF Len(args) = 0 THEN [label |-> defaultLabel, conditions |-> <<>>]
    ELSE IF IsFunction(args[1])
         THEN [label |-> defaultLabel, conditions |-> args]
         ELSE [label |-> resolveLabel(defaultLabel, args[1]),
               conditions |-> Tail(args)]

\* op.and(...args), op.or(...args): the condition they return
and(args) ==
    LET sp == splitArgs("and", args)
    IN  [kind |-> "and", label |-> sp.label, result |-> FALSE,
         children |-> sp.conditions]

or(args) ==
    LET sp == splitArgs("or", args)
    IN  [kind |-> "or", label |-> sp.label, result |-> FALSE,
         children |-> sp.conditions]

\* op.not(labelOrCondition, maybeCondition?)
not(args) ==
    LET label == resolveLabel("not", IF IsFunction(args[1]) THEN NoLabel
                                     ELSE args[1])
        conditionToNegate == IF IsFunction(args[1]) THEN args[1] ELSE args[2]
    IN  [kind |-> "not", label |-> label, result |-> FALSE,
         children |-> <<conditionToNegate>>]

\* The concatenation of a sequence of sequences.
RECURSIVE Concat(_)
Concat(ss) == IF ss = <<>> THEN <<>> ELSE Head(ss) \o Concat(Tail(ss))

\* A ConditionTrace, with the order in which the tests of the atomic
\* conditions were called to produce it.
AtomTrace(c) ==
    [trace |-> [label |-> c.label, result |-> c.result, op |-> Undef,
                left |-> Undef, children |-> <<>>],
     calls |-> <<c.label>>]

OpTrace(c, result, left, kids) ==
    [trace |-> [label |-> c.label, result |-> result, op |-> Str(c.kind),
                left |-> left,
                children |-> [i \in DOMAIN kids |-> kids[i].trace]],
     calls |-> Concat([i \in DOMAIN kids |-> kids[i].calls])]

\* The children up to and including the first whose result is `stop`.
RECURSIVE UpToFirst(_, _)
UpToFirst(kids, stop) ==
    IF kids = <<>> THEN <<>>
    ELSE IF Head(kids).trace.result = stop THEN <<Head(kids)>>
    ELSE <<Head(kids)>> \o UpToFirst(Tail(kids), stop)

Labels(kids) == Arr([i \in DOMAIN kids |-> Str(kids[i].trace.label)])

\* and / or that stop at the child that decides the result.
RECURSIVE CallShortCircuit(_)
CallShortCircuit(c) ==
    IF c.kind = "atomic" THEN AtomTrace(c)
    ELSE LET all == [i \in DOMAIN c.children |->
                        CallShortCircuit(c.children[i])]
         IN  CASE c.kind = "and" ->
                    LET kids == UpToFirst(all, FALSE)
                    IN  OpTrace(c, \A i \in DOMAIN kids :
                                      kids[i].trace.result,
                                Labels(kids), kids)
               [] c.kind = "or" ->
                    LET kids == UpToFirst(all, TRUE)
                    IN  OpTrace(c, \E i \in DOMAIN kids :
                                      kids[i].trace.result,
                                Labels(kids), kids)
               [] OTHER ->
                    OpTrace(c, ~all[1].trace.result,
                            Str(all[1].trace.label), all)

\* cond(facts): atomic conditions call their test; and / or call every
\* child (conditions.map) and then take every / some of the results; not
\* calls its child.
RECURSIVE Call(_)
Call(c) ==
    IF c.kind = "atomic" THEN AtomTrace(c)
    ELSE LET children == [i \in DOMAIN c.children |-> Call(c.children[i])]
         IN  CASE c.kind = "and" ->
                    OpTrace(c, \A i \in DOMAIN children :
                                  children[i].trace.result,
                            Labels(children), children)
               [] c.kind = "or" ->
                    OpTrace(c, \E i \in DOMAIN children :
                                  children[i].trace.result,
                            Labels(children), children)
               [] OTHER ->
                    OpTrace(c, ~children[1].trace.result,
                            Str(children[1].trace.label), children)

\* The conditions and labels the operators are given.
Atoms == { Atom("gt-zero", TRUE), Atom("lt-ten", FALSE), Atom("is-vip", TRUE) }

Composites ==
    { and(<<Atom("gt-zero", TRUE), Atom("lt-ten", FALSE)>>),
      or(<<LabelArg("any"), Atom("lt-ten", FALSE), Atom("is-vip", TRUE)>>),
      not(<<Atom("lt-ten", FALSE)>>) }

Operands == Atoms \cup Composites

LabelArgs == { LabelArg("range-check"), LabelArg(""), LabelObjectArg("named") }

MaxArgs == 2

ConditionLists ==
    UNION { [1..n -> Operands] : n \in 0..MaxArgs }

\* The argument lists of and / or: conditions, with or without a leading
\* label; of not: one condition, with or without a leading label.
OpArgs(kind) ==
    IF kind = "not"
    THEN { <<c>> : c \in Operands }
            \cup { <<l, c>> : l \in LabelArgs, c \in Operands }
    ELSE ConditionLists
            \cup { <<l>> \o cs : l \in LabelArgs, cs \in ConditionLists }

NoEval == [kind |-> "none", args |-> <<>>, done |-> FALSE,
           cond |-> Atom("none", FALSE), out |-> AtomTrace(Atom("none", FALSE))]

\* ------------------------------------------------- the operator registry

\* The names operators are registered and looked up under, in the order
\* Array.prototype.sort() gives them, and the factories registered.
\* `registry` is a plain object ({}): besides its own properties it answers
\* for the names Object.prototype defines, "toString" among them.
OperatorNames == <<"is-even", "positive", "toString", "unique-op">>
Names == { OperatorNames[i] : i \in DOMAIN OperatorNames }
PrototypeNames == {"toString"}
Factories == {"factory1", "factory2"}
NativeFunction == "Object.prototype.toString"

NoOperators == [n \in {} |-> "factory1"]

AlreadyRegistered(name) ==
    "Error: Operator \"" \o name \o "\" is already registered."
NotRegistered(name) ==
    "Error: Operator \"" \o name \o "\" is not registered."

\* registry[name]: the own property, else what the prototype chain holds,
\* else undefined.
Lookup(reg, name) ==
    IF name \in DOMAIN reg THEN reg[name]
    ELSE IF name \in PrototypeNames THEN NativeFunction
    ELSE "undefined"

\* Object.keys(registry).sort()
sortedKeys(reg) == SelectSeq(OperatorNames, LAMBDA n : n \in DOMAIN reg)

\* The last call: fn, its arguments, what it threw and what it returned.
\* registered is history: the factory of the first register call that
\* succeeded for each name.
NoOpCall ==
    [fn |-> "none", name |-> "", factory |-> "undefined", threw |-> NoError,
     value |-> Undef, registered |-> NoOperators]

\* ------------------------------------------------------ field(path).get

\* A function value and a boolean.
Fn(name) == [t |-> "fn", v |-> name]
Bool(b) == [t |-> "bool", v |-> b]

\* What evaluating an expression threw instead of yielding a value.
TypeError == [t |-> "throw", v |-> "TypeError"]

\* The segments a path is made of, and the array indices among them.
Segments == {"user", "age", "value", "toString", "length", "0"}
Indices == [k \in {"0"} |-> 1]

\* The longest path, in segments.
MaxParts == 3

\* What an object that lacks the own property inherits under that name.
Inherited(part) ==
    IF part \in PrototypeNames THEN Fn(NativeFunction) ELSE Undef

\* current[part]: a TypeError on null and undefined; an own property of an
\* object, an element or the length of an array; otherwise what the
\* prototype chain (of the object, or of the boxed primitive) holds.
Member(current, part) ==
    CASE current.t \in {"null", "undef"} -> TypeError
      [] current.t \in {"obj", "inst"} ->
            IF part \in DOMAIN current.v THEN current.v[part]
            ELSE Inherited(part)
      [] current.t = "arr" ->
            IF part \in DOMAIN Indices /\ Indices[part] <= Len(current.v)
            THEN current.v[Indices[part]]
            ELSE IF part = "length" THEN Num(Len(current.v))
            ELSE Inherited(part)
      [] OTHER -> Inherited(part)

\* The loop of getPathValue from part number i on.
RECURSIVE walkParts(_, _, _)
walkParts(current, parts, i) ==
    IF i > Len(parts) THEN current
    ELSE IF IsObject(current)
         THEN walkParts(Member(current, parts[i]), parts, i + 1)
         ELSE Undef

\* getPathValue(facts, path), the path given as String(path).split(".").
getPathValue(facts, parts) == walkParts(facts, parts, 1)

\* a === b for a primitive b.
StrictEquals(a, b) == a.t = b.t /\ ~IsObject(a) /\ a.t # "fn" /\ a.v = b.v

\* String(path) of the parts, and String(value) of a primitive.
RECURSIVE Join(_)
Join(parts) ==
    IF Len(parts) = 1 THEN parts[1]
    ELSE parts[1] \o "." \o Join(Tail(parts))
ToText(value) ==
    CASE value.t = "undef" -> "undefined"
      [] value.t = "null" -> "null"
      [] value.t = "num" -> IF value.v = 30 THEN "30" ELSE "0"
      [] OTHER -> value.v

\* field(path).eq(value)(facts): the condition's trace.
eq(parts, value, facts) ==
    [label |-> Join(parts) \o " == " \o ToText(value),
     result |-> StrictEquals(getPathValue(facts, parts), value),
     left |-> getPathValue(facts, parts),
     op |-> "==",
     right |-> value]

\* The facts: user is an object holding age, or one of the leaves itself.
FieldLeaves ==
    {Num(30), Num(0), Str("Ada"), Str(""), Bool(FALSE), Null, Undef,
     Arr(<<Str("vip")>>), DateValue}
FieldFacts ==
    { Obj("user" :> u) :
        u \in FieldLeaves \cup { Obj("age" :> leaf) : leaf \in FieldLeaves }
                          \cup {EmptyObj} }
    \cup {EmptyObj}
Paths ==
    UNION { [1..n -> Segments] : n \in 1..MaxParts }
EqValues == {Undef, Null, Num(30)}

\* A field, the facts it is read from, and what get and eq(value) returned.
NoField ==
    [facts |-> Undef, parts |-> <<>>, value |-> Undef, got |-> <<>>,
     cond |-> <<>>]

\* --------------------------------------------------- the ruleset registry

\* registry.ts traceLimit
traceLimit == 25

\* The registry entry of the ruleset: its trace runs and the trace counter;
\* invocations counts the engine.run and engine.runAsync calls made.
NoTraces == [traces |-> <<>>, traceCounter |-> 0, invocations |-> 0]

\* A registry that never splices: every run recorded stays.
recordTraceUnbounded(log, trace, fired) ==
    [log EXCEPT !.traceCounter = @ + 1,
                !.traces = Append(@, [id |-> log.traceCounter,
                                      fired |-> fired, trace |-> trace])]

\* registry.recordTrace(registryId, trace, fired, facts): the run is pushed
\* and the oldest runs beyond traceLimit are spliced off.
recordTrace(log, trace, fired) ==
    LET pushed == Append(log.traces,
                         [id |-> log.traceCounter, fired |-> fired,
                          trace |-> trace])
        n == Len(pushed)
    IN  [log EXCEPT !.traceCounter = @ + 1,
                    !.traces = IF n > traceLimit
                               THEN SubSeq(pushed, n - traceLimit + 1, n)
                               ELSE pushed]

\* registry.listTraces(registryId): a copy of the entry's list.
listTraces(log) == [n \in DOMAIN log.traces |-> log.traces[n]]

\* The registry after a step that took a run from `before` to `after`.
registryAfter(log, before, after) ==
    LET log1 == IF before.status = "idle" /\ after.status # "idle"
                THEN [log EXCEPT !.invocations = @ + 1]
                ELSE log
    IN  IF after.recorded > before.recorded
        THEN recordTrace(log1, after.trace, after.fired)
        ELSE log1

\* ------------------------------------------------------------- the state

VARIABLES
    rules,                  \* RulesetBuilderImpl.rules
    nextOrder,              \* RulesetBuilderImpl.nextOrder
    ruleCalls,              \* the number of rule builders rule(id) has made
    defaultEffectsFactory,  \* the object the factory returns, Undef if unset
    validateFactsFn,        \* RulesetBuilderImpl.validateFactsFn
    validateEffectsFn,      \* RulesetBuilderImpl.validateEffectsFn
    telemetryAdapter,       \* RulesetBuilderImpl.telemetryAdapter
    thrown,                 \* what the last builder call threw (NoError: nothing)
    engine,                 \* the engine the first compile() returned
    engine2,                \* the engine a later compile() returned
    run,                    \* a run of an engine (see NoRun)
    run2,                   \* a second run, concurrent with the first
    merge,                  \* a call of mergeEffects: its arguments and result
    opEval,                 \* a call of op.and / op.or / op.not and of its result
    registry,               \* op.ts registry: its own properties, name -> factory
    opCall,                 \* the last call of op.register / use / has / list
    fieldCall,              \* a field(path) called with get and eq (see NoField)
    traceLog,               \* the ruleset's registry entry (see NoTraces)
    probe,                  \* a call of a pure function: its arguments, its result
    traceRegistry,          \* registry.ts: entries, nameIndex and the counters
    rulesets                \* the builders ruleset(name) has returned

builder ==
    <<rules, nextOrder, ruleCalls, defaultEffectsFactory, validateFactsFn,
      validateEffectsFn, telemetryAdapter>>

\* What the builder and the engine never touch.
aside ==
    <<merge, opEval, registry, opCall, fieldCall, probe, traceRegistry,
      rulesets>>

vars == <<builder, thrown, engine, engine2, run, run2, traceLog, aside>>

\* No pure function has been called.
NoProbe == [fn |-> "none", args |-> <<>>, out |-> <<>>]

\* registry.ts as the module is loaded: no entry, no name, both counters 0.
NoRegistry ==
    [entries |-> <<>>, nameIndex |-> <<>>, counter |-> 0, traceCounter |-> 0]

NoMerge ==
    [target |-> EmptyObj, patch |-> EmptyObj, strategy |-> "assign",
     result |-> Undef, done |-> FALSE]

\* What the builder holds besides its rules and its factory.
Hooks(vf, ve, ta) ==
    [validateFactsFn |-> vf, validateEffectsFn |-> ve, telemetryAdapter |-> ta]

\* An engine holds what compile() captured: the sorted copy of the rules and
\* the default-effects factory. `at` is history: the validators and the
\* adapter the builder held when compile() was called.
NoEngine ==
    [compiled |-> FALSE, sortedRules |-> <<>>, defaultEffectsFactory |-> Undef,
     at |-> Hooks(Unset, Unset, Unset)]

\* ----------------------------------------------------------- the builder

\* RuleBuilderImpl.end(): the rule takes the next order number and is
\* pushed to the ruleset's list.
MakeRule(id, priority, shape, order) ==
    [id |-> id, priority |-> priority, order |-> order,
     conditions |-> shape.conditions, action |-> shape.action,
     meta |-> shape.meta]

\* A comparator with the priorities the wrong way round (ascending).
compareRulesAscending(a, b) ==
    IF a.priority # b.priority THEN a.priority - b.priority
    ELSE a.order - b.order

\* (a, b) => a.priority !== b.priority ? b.priority - a.priority
\*                                     : a.order - b.order
compareRules(a, b) ==
    IF a.priority # b.priority THEN b.priority - a.priority
    ELSE a.order - b.order

\* Array.prototype.sort is stable: an element stays behind every element
\* that was before it and does not compare greater.
RECURSIVE InsertRule(_, _)
InsertRule(sorted, x) ==
    IF sorted = <<>> THEN <<x>>
    ELSE IF compareRules(sorted[Len(sorted)], x) <= 0 THEN Append(sorted, x)
    ELSE Append(InsertRule(SubSeq(sorted, 1, Len(sorted) - 1), x),
                sorted[Len(sorted)])

RECURSIVE sortRules(_)
sortRules(rs) ==
    IF rs = <<>> THEN <<>>
    ELSE InsertRule(sortRules(SubSeq(rs, 1, Len(rs) - 1)), rs[Len(rs)])

\* -------------------------------------------------------------- a run

NoReason == "none"

\* The RuleTrace a loop iteration starts with (durationMs and meta are not
\* modelled: the first is wall-clock time, the second a copy of rule.meta).
NewRuleTrace(rule) ==
    [ruleId |-> rule.id, matched |-> FALSE, conditions |-> <<>>,
     notes |-> <<>>, error |-> NoError, skippedReason |-> NoReason,
     durationMs |-> 0]

NoTrace == NewRuleTrace([id |-> "none"])

\* `error: ${String(error)}`
ErrorNote(err) ==
    IF err = Boom THEN "error: Error: boom"
    ELSE "error: Error: Async rule action detected. Use runAsync()."

\* The state of one run. heap holds the effects objects the run has created
\* (heap[1] is the object the factory returned, later ones are clones);
\* effects is the reference the loop's variable `effects` holds. execs are
\* the action calls made so far: [pos, working, state, value, elapsed] with
\* state "returned", "threw" (synchronous outcomes), "pending", "resolved"
\* or "rejected" (a promise). awaiting is the exec runAsync is suspended on.
\* calls is the history of what the run invoked, each entry with the content
\* of `effects` at that moment.
NoOpts ==
    [activation |-> "all", effectsMode |-> "mutable",
     mergeStrategy |-> "assign", rollbackOnError |-> FALSE,
     includeTags |-> <<>>, excludeTags |-> <<>>]

NoRun ==
    [status |-> "idle", entry |-> "none", opts |-> NoOpts, heap |-> <<>>,
     effects |-> 0, idx |-> 0, broke |-> FALSE, matched |-> FALSE,
     cur |-> NoTrace, trace |-> <<>>, fired |-> <<>>, calls |-> <<>>,
     execs |-> <<>>, awaiting |-> 0, error |-> NoError,
     of |-> 0, validateEffectsFn |-> Unset, telemetryAdapter |-> Unset,
     durations |-> <<>>, spans |-> <<>>, recorded |-> 0]

\* Date.now() - start at the end of the loop iteration of the rule at pos:
\* durations lists what the clock gives the run, iteration by iteration
\* (0 where it lists nothing).
Elapsed(r, pos) == IF pos \in DOMAIN r.durations THEN r.durations[pos] ELSE 0

\* RunInput reading the builder's rule list when the run is called.
RunInputLive(e, vf, ve, ta) ==
    [rules |-> sortRules(rules),
     defaultEffectsFactory |-> e.defaultEffectsFactory,
     validateFactsFn |-> vf, validateEffectsFn |-> ve,
     telemetryAdapter |-> ta, durations |-> <<>>]

\* What engine.run / engine.runAsync hand to runSync / runAsync besides the
\* options: the rules and the factory compile() captured, and the
\* validators and the adapter the builder holds when the run is called.
RunInput(e, vf, ve, ta) ==
    [rules |-> e.sortedRules,
     defaultEffectsFactory |-> e.defaultEffectsFactory,
     validateFactsFn |-> vf, validateEffectsFn |-> ve,
     telemetryAdapter |-> ta, durations |-> <<>>]

Content(r) == r.heap[r.effects]

\* What the adapter and its spans are told, in order: startSpan(name, ...)
\* for the run (pos 0), the rule at pos (i = 0) or its condition i, then
\* recordException(error) and end() on that span.
SpanEvent(ev, name, pos, i, error) ==
    [ev |-> ev, name |-> name, pos |-> pos, i |-> i, error |-> error]

\* adapter.startSpan(name, attributes); nothing without an adapter.
startSpan(r, name, pos, i) ==
    IF r.telemetryAdapter = Unset THEN r
    ELSE [r EXCEPT !.spans =
                     Append(@, SpanEvent("start", name, pos, i, NoError))]

\* A wrapper without the catch block: a step that throws leaves its span
\* open.
endSpanOnReturn(r, name, pos, i, error) ==
    IF r.telemetryAdapter = Unset \/ error # NoError THEN r
    ELSE [r EXCEPT !.spans =
                     Append(@, SpanEvent("end", name, pos, i, NoError))]

\* The rest of runWithSpan / runWithSpanAsync once the wrapped step is
\* over: span.end() after a return, span.recordException(error) and then
\* span.end() in the catch block (which rethrows).
endSpan(r, name, pos, i, error) ==
    IF r.telemetryAdapter = Unset THEN r
    ELSE IF error = NoError
    THEN [r EXCEPT !.spans =
                     Append(@, SpanEvent("end", name, pos, i, NoError))]
    ELSE [r EXCEPT !.spans =
                     Append(Append(@, SpanEvent("exception", name, pos, i,
                                                error)),
                            SpanEvent("end", name, pos, i, NoError))]

\* The run span once the run has returned, thrown or rejected.
endRunSpan(r) ==
    IF r.status \in {"done", "threw"}
    THEN endSpan(r, "rulit.run", 0, 0, r.error)
    ELSE r

Event(k, pos, i, r) == [k |-> k, pos |-> pos, i |-> i, eff |-> Content(r)]

\* tags.includes(tag)
Includes(tags, tag) == \E i \in DOMAIN tags : tags[i] = tag

\* list.some((tag) => tags.includes(tag))
SomeIncluded(list, tags) == \E i \in DOMAIN list : Includes(tags, list[i])

\* The include filter without its negation.
getSkipReasonNoNegation(meta, includeTags, excludeTags) ==
    IF meta.enabled = "false" THEN "disabled"
    ELSE IF Len(includeTags) > 0 /\ SomeIncluded(includeTags, meta.tags)
         THEN "tag-filtered"
    ELSE IF Len(excludeTags) > 0 /\ SomeIncluded(excludeTags, meta.tags)
         THEN "tag-excluded"
    ELSE NoReason

getSkipReason(meta, includeTags, excludeTags) ==
    IF meta.enabled = "false" THEN "disabled"
    ELSE IF Len(includeTags) > 0 /\ ~SomeIncluded(includeTags, meta.tags)
         THEN "tag-filtered"
    ELSE IF Len(excludeTags) > 0 /\ SomeIncluded(excludeTags, meta.tags)
         THEN "tag-excluded"
    ELSE NoReason

\* The condition loop without its break: every condition is evaluated.
RECURSIVE evalConditionsNoBreak(_, _, _, _)
evalConditionsNoBreak(r, pos, rule, i) ==
    IF i > Len(rule.conditions) THEN r
    ELSE LET c == rule.conditions[i]
             r1 == [r EXCEPT !.calls = Append(@, Event("cond", pos, i, r)),
                             !.cur.conditions = Append(@, c)]
         IN  evalConditionsNoBreak(
                 IF ~c.result THEN [r1 EXCEPT !.matched = FALSE] ELSE r1,
                 pos, rule, i + 1)

\* for (const condition of rule.conditions) { ... if (!result) break; }
\* A condition that throws ends the run with its error: nothing catches it.
RECURSIVE evalConditions(_, _, _, _)
evalConditions(r, pos, rule, i) ==
    IF i > Len(rule.conditions) THEN r
    ELSE LET c == rule.conditions[i]
             s == startSpan(r, "rulit.condition", pos, i)
             r1 == [endSpan(s, "rulit.condition", pos, i, NoError) EXCEPT
                      !.calls = Append(@, Event("cond", pos, i, r)),
                      !.cur.conditions = Append(@, c)]
         IN  IF Throws(c)
             THEN [endSpan(s, "rulit.condition", pos, i, CondBoom) EXCEPT
                     !.calls = Append(@, Event("cond", pos, i, r)),
                     !.status = "threw", !.error = CondBoom]
             ELSE IF ~c.result THEN [r1 EXCEPT !.matched = FALSE]
             ELSE evalConditions(r1, pos, rule, i + 1)

\* The working effects of a matched rule: a clone under "immutable" (a new
\* heap object), the live object otherwise.
workingEffects(r) ==
    IF r.opts.effectsMode = "immutable"
    THEN [r EXCEPT !.heap = Append(@, cloneEffects(Content(r)))]
    ELSE r

\* The working effects are always the live object: no clone is handed out.
workingRefLive(r) == r.effects

workingRef(r) ==
    IF r.opts.effectsMode = "immutable" THEN Len(r.heap) + 1 ELSE r.effects

\* rule.action(ctx) in its rulit.rule span: the synchronous part of the
\* user's action, run on the working effects; the call is recorded in
\* execs. run() ends the span as soon as the action has returned (be it a
\* promise) or thrown; runAsync() ends it after its await.
invokeAction(r, pos, rule) ==
    LET a == rule.action
        w == workingRef(r)
        r1 == [startSpan(workingEffects(r), "rulit.rule", pos, 0) EXCEPT
                 !.calls = Append(@, Event("action", pos, 0, r))]
        r2 == IF a.pre THEN [r1 EXCEPT !.heap[w] = PushFlag(@, rule.id)]
              ELSE r1
        r3 == IF a.note THEN [r2 EXCEPT !.cur.notes = Append(@, "note")]
              ELSE r2
        exec == [pos |-> pos, working |-> w,
                 state |-> CASE a.kind = "return" -> "returned"
                             [] a.kind = "throw" -> "threw"
                             [] OTHER -> "pending",
                 value |-> IF a.kind = "return" THEN a.patch ELSE Undef,
                 elapsed |-> 0]
        r4 == [r3 EXCEPT !.execs = Append(@, exec)]
    IN  IF r.entry = "run"
        THEN endSpan(r4, "rulit.rule", pos, 0,
                     IF a.kind = "throw" THEN Boom ELSE NoError)
        ELSE r4

\* The try block after the action returned `patch`: merge, then commit.
commitAction(r, w, patch) ==
    LET r1 == IF IsObject(patch)
              THEN [r EXCEPT !.heap[w] =
                       mergeEffects(@, patch, r.opts.mergeStrategy)]
              ELSE r
    IN  IF r.opts.effectsMode = "immutable"
        THEN [r1 EXCEPT !.effects = w]
        ELSE r1

\* A catch block that never rethrows.
catchActionSwallow(r, pos, err) ==
    [r EXCEPT !.cur.error = err,
              !.cur.notes = Append(@, ErrorNote(err)),
              !.calls = Append(@, Event("caught", pos, 0, r))]

\* The catch block: the error goes to the rule trace; it is rethrown unless
\* rollbackOnError is set (`effects = effects` changes nothing).
catchAction(r, pos, err) ==
    LET r1 == [r EXCEPT !.cur.error = err,
                        !.cur.notes = Append(@, ErrorNote(err)),
                        !.calls = Append(@, Event("caught", pos, 0, r))]
    IN  IF ~r.opts.rollbackOnError
        THEN [r1 EXCEPT !.status = "threw", !.error = err]
        ELSE r1

\* The end of a loop iteration without the break.
finishRuleNoBreak(r, pos) ==
    [r EXCEPT !.trace = Append(@, [r.cur EXCEPT
                                     !.durationMs = Elapsed(r, pos)]),
              !.calls = Append(@, Event("end", pos, 0, r)),
              !.cur = NoTrace, !.idx = pos + 1]

\* The end of a loop iteration: the trace is pushed; the loop breaks after a
\* match under activation "first".
finishRule(r, pos) ==
    LET r1 == [r EXCEPT !.trace = Append(@, [r.cur EXCEPT
                                     !.durationMs = Elapsed(r, pos)]),
                        !.calls = Append(@, Event("end", pos, 0, r)),
                        !.cur = NoTrace]
    IN  IF r.matched /\ r.opts.activation = "first"
        THEN [r1 EXCEPT !.broke = TRUE]
        ELSE [r1 EXCEPT !.idx = pos + 1]

\* The head of a loop iteration, shared by both loops: the skip check and
\* the conditions. The result has cur.skippedReason set (and the trace
\* pushed) for a skipped rule, else matched says whether the rule matched.
beginRule(r, pos, rule) ==
    LET r0 == [r EXCEPT !.cur = NewRuleTrace(rule), !.matched = FALSE]
        skipReason == getSkipReason(rule.meta, r.opts.includeTags,
                                    r.opts.excludeTags)
    IN  IF skipReason # NoReason
        THEN [r0 EXCEPT !.trace =
                          Append(@, [r0.cur EXCEPT
                                       !.skippedReason = skipReason,
                                       !.durationMs = Elapsed(r, pos)]),
                        !.cur = NoTrace, !.idx = pos + 1]
        ELSE LET r1 == evalConditions([r0 EXCEPT !.matched = TRUE],
                                      pos, rule, 1)
             IN  [r1 EXCEPT !.cur.matched = r1.matched]

\* Whether beginRule left the rule skipped (the loop went on: continue).
Skipped(r, pos) == r.idx # pos

\* runSync with the promise check after the merge and the commit.
syncActionLateCheck(r, pos, rule) ==
    LET r1 == invokeAction(r, pos, rule)
        e == r1.execs[Len(r1.execs)]
        r2 == CASE e.state = "returned" -> commitAction(r1, e.working, e.value)
                [] e.state = "pending" ->
                     catchAction(commitAction(r1, e.working, e.value),
                                 pos, AsyncMisuse)
                [] OTHER -> catchAction(r1, pos, Boom)
    IN  IF r2.status = "threw" THEN r2
        ELSE [r2 EXCEPT !.fired = Append(@, rule.id)]

\* runSync with fired.push inside the try block.
syncActionFiredOnSuccess(r, pos, rule) ==
    LET r1 == invokeAction(r, pos, rule)
        e == r1.execs[Len(r1.execs)]
    IN  CASE e.state = "returned" ->
               [commitAction(r1, e.working, e.value) EXCEPT
                   !.fired = Append(@, rule.id)]
          [] e.state = "pending" -> catchAction(r1, pos, AsyncMisuse)
          [] OTHER -> catchAction(r1, pos, Boom)

\* runSync's handling of a matched rule (the try/catch and fired.push).
syncAction(r, pos, rule) ==
    LET r1 == invokeAction(r, pos, rule)
        e == r1.execs[Len(r1.execs)]
        r2 == CASE e.state = "returned" -> commitAction(r1, e.working, e.value)
                [] e.state = "pending" -> catchAction(r1, pos, AsyncMisuse)
                [] OTHER -> catchAction(r1, pos, Boom)
    IN  IF r2.status = "threw" THEN r2
        ELSE [r2 EXCEPT !.fired = Append(@, rule.id)]

RECURSIVE syncLoop(_, _)
syncLoop(r, sortedRules) ==
    IF r.status # "running" \/ r.broke \/ r.idx > Len(sortedRules) THEN r
    ELSE LET pos == r.idx
             rule == sortedRules[pos]
             r1 == beginRule(r, pos, rule)
         IN  IF r1.status = "threw" THEN r1
             ELSE IF Skipped(r1, pos) THEN syncLoop(r1, sortedRules)
             ELSE IF ~r1.matched
                  THEN syncLoop(finishRule(r1, pos), sortedRules)
             ELSE LET r2 == syncAction(r1, pos, rule)
                  IN  IF r2.status = "threw" THEN r2
                      ELSE syncLoop(finishRule(r2, pos), sortedRules)

\* validateEffectsFn?.(effects): no call without a validator; a validator
\* that throws ends the run with its error.
callValidateEffects(r, pos) ==
    IF r.validateEffectsFn = Unset THEN r
    ELSE LET r1 == [r EXCEPT !.calls =
                               Append(@, Event("validateEffects", pos, 0, r))]
         IN  IF EffectsRejected(r.validateEffectsFn, Content(r))
             THEN [r1 EXCEPT !.status = "threw", !.error = EffectsInvalid]
             ELSE r1

\* A factory that hands out one and the same object on every call.
callFactoryShared(r, factory) ==
    LET r1 == IF r.heap = <<>>
              THEN [r EXCEPT !.heap = <<factory>>, !.effects = 1]
              ELSE [r EXCEPT !.effects = 1]
    IN  [r1 EXCEPT !.calls = Append(@, Event("factory", 0, 0, r1))]

\* defaultEffectsFactory(): a new object on every call, put on the heap.
callFactory(r, factory) ==
    LET r1 == [r EXCEPT !.heap = Append(@, factory),
                        !.effects = Len(r.heap) + 1]
    IN  [r1 EXCEPT !.calls = Append(@, Event("factory", 0, 0, r1))]

\* The state a run starts its loop in: the facts are validated, the
\* factory's object is effects, the effects are validated. `heap` holds the
\* objects that exist when the run is called.
StartRun(entry, opts, input, heap) ==
    LET r0 == startSpan(
                  [NoRun EXCEPT !.status = "running", !.entry = entry,
                                !.opts = opts, !.heap = heap, !.idx = 1,
                                !.validateEffectsFn = input.validateEffectsFn,
                                !.telemetryAdapter = input.telemetryAdapter,
                                !.durations = input.durations],
                  "rulit.run", 0, 0)
        r1 == IF input.validateFactsFn = Unset THEN r0
              ELSE [r0 EXCEPT !.calls =
                      Append(@, [k |-> "validateFacts", pos |-> 0, i |-> 0,
                                 eff |-> Undef])]
    IN  IF input.validateFactsFn = "reject"
        THEN [r1 EXCEPT !.status = "threw", !.error = FactsInvalid]
        ELSE callValidateEffects(callFactory(r1, input.defaultEffectsFactory), 0)

\* The end of a run without the validation of the final effects.
finishRunUnchecked(r) ==
    IF r.status # "running" THEN r ELSE [r EXCEPT !.status = "done"]

\* After the loop: the final effects are validated, the run is handed to
\* registry.recordTrace (registryId is set on every builder ruleset()
\* makes; recorded counts the calls) and the run returns its RunResult.
finishRun(r) ==
    IF r.status # "running" THEN r
    ELSE LET r1 == callValidateEffects(r, Len(r.trace) + 1)
         IN  IF r1.status = "threw" THEN r1
             ELSE [r1 EXCEPT !.status = "done", !.recorded = @ + 1]

runSync(input, opts) ==
    endRunSpan(
        finishRun(syncLoop(StartRun("run", opts, input, <<>>), input.rules)))

\* runSync called while the objects of `heap` exist.
runSyncOn(input, opts, heap) ==
    endRunSpan(
        finishRun(syncLoop(StartRun("run", opts, input, heap), input.rules)))

\* runAsync's loop up to its next await (or to its end).
RECURSIVE asyncLoop(_, _)
asyncLoop(r, sortedRules) ==
    IF r.status = "threw" THEN endRunSpan(r)
    ELSE IF r.broke \/ r.idx > Len(sortedRules) THEN endRunSpan(finishRun(r))
    ELSE LET pos == r.idx
             rule == sortedRules[pos]
             r1 == beginRule(r, pos, rule)
         IN  IF r1.status = "threw" THEN endRunSpan(r1)
             ELSE IF Skipped(r1, pos) THEN asyncLoop(r1, sortedRules)
             ELSE IF ~r1.matched
                  THEN asyncLoop(finishRule(r1, pos), sortedRules)
             ELSE LET r2 == invokeAction(r1, pos, rule)
                  IN  [r2 EXCEPT !.awaiting = Len(r2.execs)]

\* No await: the loop goes on at once.
awaitNothing(e) == TRUE

\* await: the loop goes on once the awaited action has settled.
awaitSettled(e) == e.state # "pending"

\* runAsync after its await: the try/catch, fired.push, and on to the next
\* await.
asyncResume(r, sortedRules) ==
    LET e == r.execs[r.awaiting]
        pos == e.pos
        failed == e.state \in {"threw", "rejected"}
        r1 == endSpan([r EXCEPT !.awaiting = 0], "rulit.rule", pos, 0,
                      IF failed THEN Boom ELSE NoError)
        r2 == IF failed
              THEN catchAction(r1, pos, Boom)
              ELSE commitAction(r1, e.working, e.value)
    IN  IF r2.status = "threw" THEN endRunSpan(r2)
        ELSE asyncLoop(finishRule([r2 EXCEPT !.fired =
                                      Append(@, sortedRules[pos].id)], pos),
                       sortedRules)

\* The rest of an async user action, after its await: the late mutation,
\* then the promise resolves with the patch or rejects.
settleAction(r, n, sortedRules) ==
    LET e == r.execs[n]
        a == sortedRules[e.pos].action
        r1 == IF a.late
              THEN [r EXCEPT !.heap[e.working] =
                       PushFlag(@, sortedRules[e.pos].id)]
              ELSE r
    IN  [r1 EXCEPT !.execs[n].state = IF a.ok THEN "resolved" ELSE "rejected",
                   !.execs[n].value = IF a.ok THEN a.patch ELSE Undef,
                   !.execs[n].elapsed = 0]

\* ------------------------------------------------------------ the actions

Init ==
    /\ rules = <<>>
    /\ nextOrder = 0
    /\ ruleCalls = 0
    /\ defaultEffectsFactory = Undef
    /\ validateFactsFn = Unset
    /\ validateEffectsFn = Unset
    /\ telemetryAdapter = Unset
    /\ thrown = NoError
    /\ engine = NoEngine
    /\ engine2 = NoEngine
    /\ run = NoRun
    /\ run2 = NoRun
    /\ merge = NoMerge
    /\ opEval = NoEval
    /\ registry = NoOperators
    /\ opCall = NoOpCall
    /\ traceLog = NoTraces
    /\ probe = NoProbe
    /\ traceRegistry = NoRegistry
    /\ rulesets = <<>>
    /\ fieldCall = NoField

\* The engine compile() number k returned.
EngineOf(k) == IF k = 1 THEN engine ELSE engine2

\* ruleset.defaultEffects(factory)
SetDefaultEffects(factory) ==
    /\ defaultEffectsFactory' = factory
    /\ thrown' = NoError
    /\ UNCHANGED <<rules, nextOrder, ruleCalls, validateFactsFn,
                   validateEffectsFn,
                   telemetryAdapter, engine, engine2, run, run2, traceLog, aside>>

\* ruleset.validateFacts(validator)
SetValidateFacts(validator) ==
    /\ validateFactsFn' = validator
    /\ thrown' = NoError
    /\ UNCHANGED <<rules, nextOrder, ruleCalls, defaultEffectsFactory,
                   validateEffectsFn,
                   telemetryAdapter, engine, engine2, run, run2, traceLog, aside>>

\* ruleset.validateEffects(validator)
SetValidateEffects(validator) ==
    /\ validateEffectsFn' = validator
    /\ thrown' = NoError
    /\ UNCHANGED <<rules, nextOrder, ruleCalls, defaultEffectsFactory,
                   validateFactsFn,
                   telemetryAdapter, engine, engine2, run, run2, traceLog, aside>>

\* ruleset.telemetry(adapter)
SetTelemetry(adapter) ==
    /\ telemetryAdapter' = adapter
    /\ thrown' = NoError
    /\ UNCHANGED <<rules, nextOrder, ruleCalls, defaultEffectsFactory,
                   validateFactsFn,
                   validateEffectsFn, engine, engine2, run, run2, traceLog, aside>>

\* end() taking its order number before it looks for the action.
EndTakesOrderFirst(p, shape) ==
    /\ ruleCalls' = ruleCalls + 1
    /\ nextOrder' = nextOrder + 1
    /\ IF shape.action = NoAction
       THEN thrown' = EndError /\ UNCHANGED rules
       ELSE /\ thrown' = NoError
            /\ rules' = Append(rules, MakeRule(RuleIds[ruleCalls + 1], p,
                                                shape, nextOrder))
    /\ UNCHANGED <<defaultEffectsFactory, validateFactsFn, validateEffectsFn,
                   telemetryAdapter, engine, engine2, run, run2, traceLog, aside>>

\* ruleset.rule(id).priority(p).when(...).then(...).end() with the rule
\* builder holding `shape` and priority p (the k-th rule builder of the
\* ruleset is made for the id RuleIds[k]): without an action end() throws
\* before it takes an order number; else the rule takes the next order
\* number and is pushed to the ruleset's list.
End(p, shape) ==
    /\ ruleCalls' = ruleCalls + 1
    /\ IF shape.action = NoAction
       THEN /\ thrown' = EndError
            /\ UNCHANGED <<rules, nextOrder>>
       ELSE /\ thrown' = NoError
            /\ rules' = Append(rules, MakeRule(RuleIds[ruleCalls + 1], p,
                                                shape, nextOrder))
            /\ nextOrder' = nextOrder + 1
    /\ UNCHANGED <<defaultEffectsFactory, validateFactsFn, validateEffectsFn,
                   telemetryAdapter, engine, engine2, run, run2, traceLog, aside>>

\* compile() without its check of the factory.
CompileUnchecked(k) ==
    LET e == [compiled |-> TRUE, sortedRules |-> sortRules(rules),
              defaultEffectsFactory |-> defaultEffectsFactory,
              at |-> Hooks(validateFactsFn, validateEffectsFn,
                           telemetryAdapter)]
    IN  /\ thrown' = NoError
        /\ engine' = IF k = 1 THEN e ELSE engine
        /\ engine2' = IF k = 2 THEN e ELSE engine2
        /\ UNCHANGED <<builder, run, run2, traceLog, aside>>

\* ruleset.compile(), its result kept as engine number k: throws without a
\* default-effects factory, else captures the factory and a sorted copy of
\* the rules.
CompileTo(k) ==
    LET e == [compiled |-> TRUE, sortedRules |-> sortRules(rules),
              defaultEffectsFactory |-> defaultEffectsFactory,
              at |-> Hooks(validateFactsFn, validateEffectsFn,
                           telemetryAdapter)]
    IN  /\ IF defaultEffectsFactory = Undef
           THEN thrown' = CompileError /\ UNCHANGED <<engine, engine2>>
           ELSE /\ thrown' = NoError
                /\ engine' = IF k = 1 THEN e ELSE engine
                /\ engine2' = IF k = 2 THEN e ELSE engine2
        /\ UNCHANGED <<builder, run, run2, traceLog, aside>>

\* engine.run(input) on engine k: one synchronous call.
RunCall(k, opts) ==
    /\ run' = [runSync(RunInput(EngineOf(k), validateFactsFn,
                                validateEffectsFn, telemetryAdapter), opts)
                 EXCEPT !.of = k]
    /\ traceLog' = registryAfter(traceLog, NoRun, run')
    /\ UNCHANGED <<builder, thrown, engine, engine2, run2, aside>>

\* engine.runAsync(input) on engine k: runs to its first await, or to its
\* end.
RunAsyncCall(k, opts) ==
    /\ LET input == RunInput(EngineOf(k), validateFactsFn, validateEffectsFn,
                             telemetryAdapter)
       IN  run' = [asyncLoop(StartRun("runAsync", opts, input, <<>>),
                             input.rules) EXCEPT !.of = k]
    /\ traceLog' = registryAfter(traceLog, NoRun, run')
    /\ UNCHANGED <<builder, thrown, engine, engine2, run2, aside>>

\* ruleset.defaultEffects(factory)
DefaultEffectsCall ==
    /\ ~engine.compiled
    /\ defaultEffectsFactory = Undef
    /\ SetDefaultEffects(DefaultEffects)

\* A rule is finalized. The model follows the builder up to compile().
EndRule ==
    /\ ~engine.compiled
    /\ Len(rules) < MaxRules
    /\ \E p \in Priorities, shape \in RuleShapes :
          End(p, shape)

\* ruleset.compile() with a default-effects factory.
Compile ==
    /\ ~engine.compiled
    /\ defaultEffectsFactory # Undef
    /\ CompileTo(1)

\* engine.run(input)
Run ==
    /\ engine.compiled
    /\ run.status = "idle"
    /\ \E opts \in RunOptions : RunCall(1, opts)

\* engine.runAsync(input)
RunAsync ==
    /\ engine.compiled
    /\ run.status = "idle"
    /\ \E opts \in RunOptions : RunAsyncCall(1, opts)

\* The continuation of runAsync after the awaited action settled.
Resume ==
    /\ run.status = "running"
    /\ run.awaiting # 0
    /\ awaitSettled(run.execs[run.awaiting])
    /\ run' = asyncResume(run, EngineOf(run.of).sortedRules)
    /\ traceLog' = registryAfter(traceLog, run, run')
    /\ UNCHANGED <<builder, thrown, engine, engine2, run2, aside>>

\* A timer tick while an async user action waits.
Tick ==
    /\ \E n \in DOMAIN run.execs :
          /\ run.execs[n].state = "pending"
          /\ run.execs[n].elapsed < MaxDelay
          /\ run' = [run EXCEPT !.execs[n].elapsed = @ + 1]
    /\ UNCHANGED <<builder, thrown, engine, engine2, run2, traceLog, aside>>

\* An async user action finishes.
Settle ==
    /\ \E n \in DOMAIN run.execs :
          /\ run.execs[n].state = "pending"
          /\ run' = settleAction(run, n, EngineOf(run.of).sortedRules)
    /\ UNCHANGED <<builder, thrown, engine, engine2, run2, traceLog, aside>>

Next ==
    \/ DefaultEffectsCall
    \/ EndRule
    \/ Compile
    \/ Run
    \/ RunAsync
    \/ Resume
    \/ Tick
    \/ Settle

Spec == Init /\ [][Next]_vars

\* ------------------------------------- runs with validators and bad conditions

\* The rule builders and run options of the runs with hooks.
HookShapes ==
    { [conditions |-> <<CT>>, action |-> ActMutate, meta |-> NoMeta],
      [conditions |-> <<>>, action |-> ActThrow, meta |-> NoMeta],
      [conditions |-> <<CT>>, action |-> ActAsyncReject, meta |-> NoMeta],
      [conditions |-> <<CT, CX>>, action |-> ActMutate, meta |-> NoMeta] }

HookOptions ==
    { o \in RunOptions : /\ o.mergeStrategy = "assign"
                         /\ o.includeTags = <<>>
                         /\ o.excludeTags = <<>> }

\* ruleset.validateFacts(validator), before compile()
ValidateFactsCall ==
    /\ ~engine.compiled
    /\ validateFactsFn = Unset
    /\ \E v \in FactsValidators : SetValidateFacts(v)

\* ruleset.validateEffects(validator), before compile()
ValidateEffectsCall ==
    /\ ~engine.compiled
    /\ validateEffectsFn = Unset
    /\ \E v \in EffectsValidators : SetValidateEffects(v)

HooksEndRule ==
    /\ ~engine.compiled
    /\ Len(rules) < MaxRules
    /\ \E shape \in HookShapes : End(0, shape)

HooksRun ==
    /\ engine.compiled
    /\ run.status = "idle"
    /\ \E opts \in HookOptions : RunCall(1, opts)

HooksRunAsync ==
    /\ engine.compiled
    /\ run.status = "idle"
    /\ \E opts \in HookOptions : RunAsyncCall(1, opts)

NextHooks ==
    \/ DefaultEffectsCall
    \/ ValidateFactsCall
    \/ ValidateEffectsCall
    \/ HooksEndRule
    \/ Compile
    \/ HooksRun
    \/ HooksRunAsync
    \/ Resume
    \/ Tick
    \/ Settle

SpecHooks == Init /\ [][NextHooks]_vars

\* ------------------------------------------------------ the builder alone

\* The rule builders end() is called on: with and without an action.
BuildShapes ==
    { [conditions |-> <<CT>>, action |-> ActMutate, meta |-> NoMeta],
      [conditions |-> <<>>, action |-> ActThrow, meta |-> Tagged],
      [conditions |-> <<CT>>, action |-> NoAction, meta |-> NoMeta] }

\* ruleset.defaultEffects(factory), at any time
BuildDefaultEffects ==
    \E factory \in {DefaultEffects, OtherEffects} : SetDefaultEffects(factory)

\* end() on a rule builder, at any time
BuildEndRule ==
    /\ Len(rules) < MaxRules
    /\ ruleCalls < MaxRules + 1
    /\ \E p \in Priorities, shape \in BuildShapes : End(p, shape)

\* ruleset.compile(), with or without a factory: a first and a later call
BuildCompile ==
    \E k \in {1, 2} :
        /\ EngineOf(k) = NoEngine
        /\ k = 2 => engine.compiled
        /\ CompileTo(k)

NextBuild ==
    \/ BuildDefaultEffects
    \/ BuildEndRule
    \/ BuildCompile

SpecBuild == Init /\ [][NextBuild]_vars

\* end() called once more on a rule builder that was finalized before (the
\* i-th rule of the list came from it): the builder still holds its id, its
\* priority, its conditions and its action, takes the next order number and
\* pushes one more rule.
EndAgain(i) ==
    /\ thrown' = NoError
    /\ rules' = Append(rules, [rules[i] EXCEPT !.order = nextOrder])
    /\ nextOrder' = nextOrder + 1
    /\ UNCHANGED <<ruleCalls, defaultEffectsFactory, validateFactsFn,
                   validateEffectsFn, telemetryAdapter, engine, engine2,
                   run, run2, traceLog, aside>>

\* end() on a new rule builder or on one finalized before, at any time
BuildEndAgain ==
    /\ Len(rules) < MaxRules + 1
    /\ \E i \in DOMAIN rules : EndAgain(i)

BuildEndNew ==
    /\ Len(rules) < MaxRules + 1
    /\ ruleCalls < MaxRules + 1
    /\ \E p \in Priorities, shape \in BuildShapes : End(p, shape)

NextBuilders ==
    \/ BuildDefaultEffects
    \/ BuildEndNew
    \/ BuildEndAgain
    \/ BuildCompile

SpecBuilders == Init /\ [][NextBuilders]_vars

\* ------------------------------------------- the builder after compile()

\* The rule builders finalized before and after compile().
LifeShapes ==
    { [conditions |-> <<CT>>, action |-> ActMutate, meta |-> NoMeta] }

\* ruleset.defaultEffects(factory): the first factory, and another one once
\* an engine exists
LifeDefaultEffects ==
    \/ /\ defaultEffectsFactory = Undef
       /\ SetDefaultEffects(DefaultEffects)
    \/ /\ engine.compiled
       /\ defaultEffectsFactory = DefaultEffects
       /\ SetDefaultEffects(OtherEffects)

\* ruleset.validateFacts(validator), before or after compile()
LifeValidateFacts ==
    /\ validateFactsFn = Unset
    /\ SetValidateFacts("reject")

\* ruleset.validateEffects(validator), before or after compile()
LifeValidateEffects ==
    /\ validateEffectsFn = Unset
    /\ SetValidateEffects("reject")

\* ruleset.telemetry(adapter), before or after compile()
LifeTelemetry ==
    /\ telemetryAdapter = Unset
    /\ \E a \in Adapters : SetTelemetry(a)

\* end() on a rule builder, before or after compile()
LifeEndRule ==
    /\ Len(rules) < MaxRules
    /\ \E p \in Priorities, shape \in LifeShapes : End(p, shape)

\* ruleset.compile(): a first engine, and a second one compiled later
LifeCompile ==
    /\ defaultEffectsFactory # Undef
    /\ \E k \in {1, 2} :
          /\ EngineOf(k) = NoEngine
          /\ k = 2 => engine.compiled
          /\ CompileTo(k)

\* The engine.run calls made in the life of a builder.
MaxLifeRuns == 2

\* engine.run(input) on either engine, time and again
LifeRun ==
    \E k \in {1, 2} :
        /\ EngineOf(k).compiled
        /\ traceLog.invocations < MaxLifeRuns
        /\ RunCall(k, NoOpts)

NextLife ==
    \/ LifeDefaultEffects
    \/ LifeValidateFacts
    \/ LifeValidateEffects
    \/ LifeTelemetry
    \/ LifeEndRule
    \/ LifeCompile
    \/ LifeRun

SpecLife == Init /\ [][NextLife]_vars

\* ------------------------------------ concurrent runAsync runs on one engine

\* The rule builders and run options of the concurrent runs.
ConcShapes ==
    { [conditions |-> <<CT>>, action |-> ActAsync, meta |-> NoMeta],
      [conditions |-> <<CT>>, action |-> ActAsyncReject, meta |-> NoMeta],
      [conditions |-> <<CT>>, action |-> ActPatch, meta |-> NoMeta] }

ConcOptions ==
    { o \in RunOptions : /\ o.activation = "all"
                         /\ o.mergeStrategy = "assign"
                         /\ o.includeTags = <<>>
                         /\ o.excludeTags = <<>> }

\* The two runs in flight. They live in one JavaScript heap: both records
\* hold the whole heap, and a step of one run hands its heap to the other.
RunOf(n) == IF n = 1 THEN run ELSE run2

StepRun(n, r) ==
    /\ run' = IF n = 1 THEN r ELSE [run EXCEPT !.heap = r.heap]
    /\ run2' = IF n = 2 THEN r ELSE [run2 EXCEPT !.heap = r.heap]
    /\ traceLog' = registryAfter(traceLog, RunOf(n), r)
    /\ UNCHANGED <<builder, thrown, engine, engine2, aside>>

ConcEndRule ==
    /\ ~engine.compiled
    /\ Len(rules) < MaxRules
    /\ \E shape \in ConcShapes : End(0, shape)

\* engine.runAsync(input), while the other run is idle, suspended at an
\* await, or over: the run goes to its first await, or to its end.
ConcRunAsync ==
    \E n \in {1, 2}, opts \in ConcOptions :
        /\ engine.compiled
        /\ RunOf(n).status = "idle"
        /\ n = 2 => run.status # "idle"
        /\ LET input == RunInput(engine, validateFactsFn, validateEffectsFn,
                                 telemetryAdapter)
               r == asyncLoop(StartRun("runAsync", opts, input,
                                       RunOf(3 - n).heap), input.rules)
           IN  StepRun(n, [r EXCEPT !.of = 1])

\* The continuation of one of the runs after its awaited action settled.
ConcResume ==
    \E n \in {1, 2} :
        /\ RunOf(n).status = "running"
        /\ RunOf(n).awaiting # 0
        /\ awaitSettled(RunOf(n).execs[RunOf(n).awaiting])
        /\ StepRun(n, asyncResume(RunOf(n), engine.sortedRules))

\* An async user action of one of the runs finishes.
ConcSettle ==
    \E n \in {1, 2} :
        \E e \in DOMAIN RunOf(n).execs :
            /\ RunOf(n).execs[e].state = "pending"
            /\ StepRun(n, settleAction(RunOf(n), e, engine.sortedRules))

NextConc ==
    \/ DefaultEffectsCall
    \/ ConcEndRule
    \/ Compile
    \/ ConcRunAsync
    \/ ConcResume
    \/ ConcSettle

SpecConc == Init /\ [][NextConc]_vars

\* --------------------------------- the same run() twice on one engine

TwiceOptions ==
    { o \in RunOptions : o.includeTags = <<>> /\ o.excludeTags = <<>> }

\* What the clock may give a run: every iteration takes d milliseconds.
Durations == { [i \in 1..Len(engine.sortedRules) |-> d] : d \in {0, 1} }

TwiceEndRule ==
    /\ ~engine.compiled
    /\ Len(rules) < MaxRules
    /\ \E shape \in RuleShapes : End(0, shape)

\* engine.run(input): a first call, and later a second call with the same
\* facts and options
TwiceRun ==
    LET input == RunInput(engine, validateFactsFn, validateEffectsFn,
                          telemetryAdapter)
    IN  /\ engine.compiled
        /\ \E ds \in Durations :
              \/ /\ run.status = "idle"
                 /\ \E opts \in TwiceOptions :
                       StepRun(1, [runSyncOn([input EXCEPT !.durations = ds],
                                             opts, <<>>) EXCEPT !.of = 1])
              \/ /\ run.status \in {"done", "threw"}
                 /\ run2.status = "idle"
                 /\ StepRun(2, [runSyncOn([input EXCEPT !.durations = ds],
                                          run.opts, run.heap)
                                  EXCEPT !.of = 1])

\* An async user action that run() left behind finishes.
TwiceSettle ==
    \E n \in {1, 2} :
        \E e \in DOMAIN RunOf(n).execs :
            /\ RunOf(n).execs[e].state = "pending"
            /\ StepRun(n, settleAction(RunOf(n), e, engine.sortedRules))

NextTwice ==
    \/ DefaultEffectsCall
    \/ TwiceEndRule
    \/ Compile
    \/ TwiceRun
    \/ TwiceSettle

SpecTwice == Init /\ [][NextTwice]_vars

\* ------------------------- run() and runAsync() on synchronous actions

\* Rule builders whose actions return no promise.
SyncShapes ==
    { sh \in RuleShapes : sh.action.kind # "promise" }
        \cup { [conditions |-> <<CT, CX>>, action |-> ActMutate,
                meta |-> NoMeta] }

BothEndRule ==
    /\ ~engine.compiled
    /\ Len(rules) < MaxRules
    /\ \E shape \in SyncShapes : End(0, shape)

\* ruleset.validateEffects(validator), before compile()
BothValidateEffects ==
    /\ ~engine.compiled
    /\ validateEffectsFn = Unset
    /\ SetValidateEffects("rejectFlagged")

\* engine.run(input)
BothRun ==
    /\ engine.compiled
    /\ run.status = "idle"
    /\ \E opts \in RunOptions :
          StepRun(1, [runSyncOn(RunInput(engine, validateFactsFn,
                                         validateEffectsFn, telemetryAdapter),
                                opts, <<>>) EXCEPT !.of = 1])

\* engine.runAsync(input) with the facts and options of the run() before
BothRunAsync ==
    /\ run.status \in {"done", "threw"}
    /\ run2.status = "idle"
    /\ LET input == RunInput(engine, validateFactsFn, validateEffectsFn,
                             telemetryAdapter)
       IN  StepRun(2, [asyncLoop(StartRun("runAsync", run.opts, input,
                                          run.heap), input.rules)
                         EXCEPT !.of = 1])

\* The continuation of runAsync after its await.
BothResume ==
    /\ run2.status = "running"
    /\ run2.awaiting # 0
    /\ awaitSettled(run2.execs[run2.awaiting])
    /\ StepRun(2, asyncResume(run2, engine.sortedRules))

NextBoth ==
    \/ DefaultEffectsCall
    \/ BothValidateEffects
    \/ BothEndRule
    \/ Compile
    \/ BothRun
    \/ BothRunAsync
    \/ BothResume

SpecBoth == Init /\ [][NextBoth]_vars

\* -------------------------------------- op.register, use, has and list

\* register that assigns without looking the name up.
registerOverwrites(name, factory) ==
    /\ registry' = [n \in DOMAIN registry \cup {name} |->
                       IF n = name THEN factory ELSE registry[n]]
    /\ opCall' = [opCall EXCEPT
                     !.fn = "register", !.name = name, !.factory = factory,
                     !.threw = NoError, !.value = Undef,
                     !.registered = IF name \in DOMAIN @ THEN @
                                    ELSE @ @@ (name :> factory)]
    /\ UNCHANGED <<builder, thrown, engine, engine2, run, run2, traceLog, probe,
                   traceRegistry, rulesets,
                   fieldCall, merge, opEval>>

\* op.register(name, factory)
register(name, factory) ==
    /\ IF Lookup(registry, name) # "undefined"
       THEN /\ opCall' = [opCall EXCEPT
                            !.fn = "register", !.name = name,
                            !.factory = factory, !.value = Undef,
                            !.threw = AlreadyRegistered(name)]
            /\ UNCHANGED registry
       ELSE /\ registry' = registry @@ (name :> factory)
            /\ opCall' = [opCall EXCEPT
                            !.fn = "register", !.name = name,
                            !.factory = factory, !.value = Undef,
                            !.threw = NoError,
                            !.registered = IF name \in DOMAIN @ THEN @
                                           ELSE @ @@ (name :> factory)]
    /\ UNCHANGED <<builder, thrown, engine, engine2, run, run2, traceLog, probe,
                   traceRegistry, rulesets,
                   fieldCall, merge, opEval>>

\* What a looked-up factory returns when called: a registered factory
\* builds its condition; Object.prototype.toString returns a string.
Build(factory) ==
    IF factory = NativeFunction THEN Str("[object Undefined]")
    ELSE [t |-> "condition", v |-> factory]

\* op.use(name)
use(name) ==
    /\ LET factory == Lookup(registry, name)
       IN  opCall' = [opCall EXCEPT
                        !.fn = "use", !.name = name, !.factory = "undefined",
                        !.threw = IF factory = "undefined"
                                  THEN NotRegistered(name) ELSE NoError,
                        !.value = IF factory = "undefined" THEN Undef
                                  ELSE Build(factory)]
    /\ UNCHANGED <<builder, thrown, engine, engine2, run, run2, traceLog, probe,
                   traceRegistry, rulesets,
                   fieldCall, merge, opEval,
                   registry>>

\* op.has(name): Boolean(registry[name])
has(name) ==
    /\ opCall' = [opCall EXCEPT
                     !.fn = "has", !.name = name, !.factory = "undefined",
                     !.threw = NoError,
                     !.value = [t |-> "bool",
                                v |-> Lookup(registry, name) # "undefined"]]
    /\ UNCHANGED <<builder, thrown, engine, engine2, run, run2, traceLog, probe,
                   traceRegistry, rulesets,
                   fieldCall, merge, opEval,
                   registry>>

\* op.list()
listCall ==
    /\ opCall' = [opCall EXCEPT
                     !.fn = "list", !.name = "", !.factory = "undefined",
                     !.threw = NoError,
                     !.value = [t |-> "names", v |-> sortedKeys(registry)]]
    /\ UNCHANGED <<builder, thrown, engine, engine2, run, run2, traceLog, probe,
                   traceRegistry, rulesets,
                   fieldCall, merge, opEval,
                   registry>>

OpRegister == \E name \in Names, factory \in Factories : register(name, factory)
OpUse == \E name \in Names : use(name)
OpHas == \E name \in Names : has(name)
OpList == listCall

NextRegistry ==
    \/ OpRegister
    \/ OpUse
    \/ OpHas
    \/ OpList

SpecRegistry == Init /\ [][NextRegistry]_vars

\* ------------------------------------------------ op.and, op.or, op.not

InitOps ==
    /\ rules = <<>>
    /\ nextOrder = 0
    /\ ruleCalls = 0
    /\ defaultEffectsFactory = Undef
    /\ validateFactsFn = Unset
    /\ validateEffectsFn = Unset
    /\ telemetryAdapter = Unset
    /\ thrown = NoError
    /\ engine = NoEngine
    /\ engine2 = NoEngine
    /\ run = NoRun
    /\ run2 = NoRun
    /\ merge = NoMerge
    /\ \E kind \in {"and", "or", "not"} :
          \E args \in OpArgs(kind) :
              opEval = [NoEval EXCEPT !.kind = kind, !.args = args]
    /\ registry = NoOperators
    /\ opCall = NoOpCall
    /\ traceLog = NoTraces
    /\ probe = NoProbe
    /\ traceRegistry = NoRegistry
    /\ rulesets = <<>>
    /\ fieldCall = NoField

\* op.and(...args)(facts), op.or(...args)(facts), op.not(...args)(facts):
\* the condition is built and called once.
OpCall ==
    /\ ~opEval.done
    /\ LET cond == CASE opEval.kind = "and" -> and(opEval.args)
                     [] opEval.kind = "or" -> or(opEval.args)
                     [] OTHER -> not(opEval.args)
       IN  opEval' = [opEval EXCEPT !.cond = cond, !.out = Call(cond),
                                    !.done = TRUE]
    /\ UNCHANGED <<builder, thrown, engine, engine2, run, run2, traceLog, probe,
                   traceRegistry, rulesets,
                   fieldCall, merge,
                   registry, opCall>>

NextOps == OpCall

SpecOps == InitOps /\ [][NextOps]_vars

\* ---------------------------------------------------- field(path) on its own

InitField ==
    /\ rules = <<>>
    /\ nextOrder = 0
    /\ ruleCalls = 0
    /\ defaultEffectsFactory = Undef
    /\ validateFactsFn = Unset
    /\ validateEffectsFn = Unset
    /\ telemetryAdapter = Unset
    /\ thrown = NoError
    /\ engine = NoEngine
    /\ engine2 = NoEngine
    /\ run = NoRun
    /\ run2 = NoRun
    /\ merge = NoMerge
    /\ opEval = NoEval
    /\ registry = NoOperators
    /\ opCall = NoOpCall
    /\ traceLog = NoTraces
    /\ probe = NoProbe
    /\ traceRegistry = NoRegistry
    /\ rulesets = <<>>
    /\ \E facts \in FieldFacts, parts \in Paths, value \in EqValues :
          fieldCall = [NoField EXCEPT !.facts = facts, !.parts = parts,
                                      !.value = value]

\* field(path).get(facts)
FieldGet ==
    /\ fieldCall.got = <<>>
    /\ fieldCall' = [fieldCall EXCEPT
                       !.got = <<getPathValue(fieldCall.facts,
                                              fieldCall.parts)>>]
    /\ UNCHANGED <<builder, thrown, engine, engine2, run, run2, traceLog, probe,
                   traceRegistry, rulesets, merge,
                   opEval, registry, opCall>>

\* field(path).eq(value)(facts)
FieldEq ==
    /\ fieldCall.cond = <<>>
    /\ fieldCall' = [fieldCall EXCEPT
                       !.cond = <<eq(fieldCall.parts, fieldCall.value,
                                     fieldCall.facts)>>]
    /\ UNCHANGED <<builder, thrown, engine, engine2, run, run2, traceLog, probe,
                   traceRegistry, rulesets, merge,
                   opEval, registry, opCall>>

NextField ==
    \/ FieldGet
    \/ FieldEq

SpecField == InitField /\ [][NextField]_vars

\* ------------------------------------------------- runs with a telemetry adapter

\* The rule builders of the runs with an adapter: conditions that pass, fail
\* and throw; actions that return, throw, resolve and reject.
SpanShapes ==
    HookShapes \cup
    { [conditions |-> <<CT, CF, CT>>, action |-> ActMutate, meta |-> NoMeta],
      [conditions |-> <<CT>>, action |-> ActAsync, meta |-> NoMeta],
      [conditions |-> <<CT>>, action |-> ActMutate, meta |-> Disabled] }

\* ruleset.telemetry(adapter), before compile()
SpansTelemetry ==
    /\ ~engine.compiled
    /\ telemetryAdapter = Unset
    /\ \E a \in Adapters : SetTelemetry(a)

SpansEndRule ==
    /\ ~engine.compiled
    /\ Len(rules) < MaxRules
    /\ \E shape \in SpanShapes : End(0, shape)

NextSpans ==
    \/ DefaultEffectsCall
    \/ ValidateEffectsCall
    \/ SpansTelemetry
    \/ SpansEndRule
    \/ Compile
    \/ HooksRun
    \/ HooksRunAsync
    \/ Resume
    \/ Settle

SpecSpans == Init /\ [][NextSpans]_vars

\* ------------------------------------------------ runs recorded in the registry

\* The engine.run and engine.runAsync calls made on the engine.
MaxRuns == traceLimit + 1

\* The rule builders of the recorded runs: an action that returns, one that
\* throws, and a condition that throws.
TraceShapes ==
    { [conditions |-> <<CT>>, action |-> ActMutate, meta |-> NoMeta],
      [conditions |-> <<>>, action |-> ActThrow, meta |-> NoMeta],
      [conditions |-> <<CT, CX>>, action |-> ActMutate, meta |-> NoMeta] }

\* The options of the recorded runs; every run of an engine is called with
\* the same ones.
TraceOptions ==
    { o \in HookOptions : o.activation = "all" /\ o.effectsMode = "mutable" }

TracesEndRule ==
    /\ ~engine.compiled
    /\ Len(rules) < MaxRules
    /\ \E shape \in TraceShapes : End(0, shape)

\* engine.run(input), once more when the run before is over.
TracesRun ==
    /\ engine.compiled
    /\ run.status # "running"
    /\ traceLog.invocations < MaxRuns
    /\ \E opts \in TraceOptions :
          /\ run.status = "idle" \/ opts = run.opts
          /\ RunCall(1, opts)

\* engine.runAsync(input), once more when the run before is over.
TracesRunAsync ==
    /\ engine.compiled
    /\ run.status # "running"
    /\ traceLog.invocations < MaxRuns
    /\ \E opts \in TraceOptions :
          /\ run.status = "idle" \/ opts = run.opts
          /\ RunAsyncCall(1, opts)

NextTraces ==
    \/ DefaultEffectsCall
    \/ TracesEndRule
    \/ Compile
    \/ TracesRun
    \/ TracesRunAsync
    \/ Resume

SpecTraces == Init /\ [][NextTraces]_vars

\* ------------------------------------------------- mergeEffects on its own

\* The values a field of the target and a field of the patch may hold (the
\* first list for the key that may nest, the second for its sibling).
TargetLeaves == {Num(0), Arr(<<Num(1)>>), Null, DateValue}
TargetSiblings == {Arr(<<>>), Num(0)}
PatchLeaves == {Num(2), Arr(<<Num(2)>>), Null, DateValue}
PatchSiblings == {Arr(<<Num(2)>>), Num(2)}

\* The plain objects with keys among a (whose value may be a nested object,
\* d levels deep at most) and b.
RECURSIVE MergeObjects(_, _, _, _, _)
MergeObjects(d, a, b, leaves, siblings) ==
    LET nest == IF d = 0 THEN leaves
                ELSE leaves \cup
                     MergeObjects(d - 1, "count", "hits", leaves, siblings)
    IN  {EmptyObj}
        \cup { Obj(a :> x) : x \in nest }
        \cup { Obj(b :> y) : y \in siblings }
        \cup { Obj((a :> x) @@ (b :> y)) : x \in nest, y \in siblings }

MergeTargets == MergeObjects(MaxDepth, "stats", "fired", TargetLeaves,
                             TargetSiblings)
MergePatches == MergeObjects(MaxDepth, "stats", "fired", PatchLeaves,
                             PatchSiblings)

InitMerge ==
    /\ rules = <<>>
    /\ nextOrder = 0
    /\ ruleCalls = 0
    /\ defaultEffectsFactory = Undef
    /\ validateFactsFn = Unset
    /\ validateEffectsFn = Unset
    /\ telemetryAdapter = Unset
    /\ thrown = NoError
    /\ engine = NoEngine
    /\ engine2 = NoEngine
    /\ run = NoRun
    /\ run2 = NoRun
    /\ merge \in [target : MergeTargets, patch : MergePatches,
                  strategy : {"assign", "deep"}, result : {Undef},
                  done : {FALSE}]
    /\ opEval = NoEval
    /\ registry = NoOperators
    /\ opCall = NoOpCall
    /\ traceLog = NoTraces
    /\ probe = NoProbe
    /\ traceRegistry = NoRegistry
    /\ rulesets = <<>>
    /\ fieldCall = NoField

\* mergeEffects(target, patch, strategy): result is the target afterwards.
MergeCall ==
    /\ ~merge.done
    /\ merge' = [merge EXCEPT
                   !.result = mergeEffects(merge.target, merge.patch,
                                           merge.strategy),
                   !.done = TRUE]
    /\ UNCHANGED <<builder, thrown, engine, engine2, run, run2, traceLog, probe,
                   traceRegistry, rulesets,
                   fieldCall, opEval,
                   registry, opCall>>

NextMerge == MergeCall

SpecMerge == InitMerge /\ [][NextMerge]_vars

\* ------------------------------------------------------------ properties

\* What the formulas below read: the compiled sequence, the entries of the
\* history of calls, and the rule a position of the sequence holds.
Sorted == engine.sortedRules
Positions == DOMAIN engine.sortedRules
Calls(k, pos) == { n \in DOMAIN run.calls :
                     run.calls[n].k = k /\ run.calls[n].pos = pos }
CondCalls(pos) == SelectSeq(run.calls,
                            LAMBDA e : e.k = "cond" /\ e.pos = pos)
Processed(pos) == pos \in DOMAIN run.trace
AllTrue(cs) == \A i \in DOMAIN cs : cs[i].result
FirstFalse(cs, k) == k \in DOMAIN cs /\ ~cs[k].result
                     /\ \A j \in 1..(k - 1) : cs[j].result
NotSkipped(pos) ==
    getSkipReason(Sorted[pos].meta, run.opts.includeTags,
                  run.opts.excludeTags) = NoReason

\* rule a was finalized (end()) before rule b
FinalizedBefore(a, b) ==
    \E m, n \in DOMAIN rules : m < n /\ rules[m] = a /\ rules[n] = b

\* C1: the sequence a compiled engine processes holds exactly the finalized
\* rules, by priority descending and, for equal priorities, in the order
\* they were finalized; a run's trace follows that sequence.
C1_CompiledOrder ==
    engine.compiled =>
        /\ Len(Sorted) = Len(rules)
        /\ { Sorted[i] : i \in Positions } = { rules[i] : i \in DOMAIN rules }
        /\ \A i, j \in Positions :
              i < j => \/ Sorted[i].priority > Sorted[j].priority
                       \/ /\ Sorted[i].priority = Sorted[j].priority
                          /\ FinalizedBefore(Sorted[i], Sorted[j])
        /\ \A i \in DOMAIN run.trace : run.trace[i].ruleId = Sorted[i].id

\* A completed run of two rules that compile() put in the opposite of their
\* declaration order.
C1_Witness ==
    /\ run.status = "done"
    /\ Len(Sorted) = 2
    /\ Sorted[1] = rules[2]
    /\ Sorted[1].priority > Sorted[2].priority
    /\ Len(run.trace) = 2

\* C2: for a rule that is not skipped and has a false condition, first at
\* position k, the conditions 1..k are invoked once each in that order and
\* no later one; once the rule is processed its trace holds exactly the
\* condition traces 1..k, matched is false, its action was not invoked and
\* it is not in fired. (A processed rule with no false condition has had
\* every condition invoked once, in order.)
C2_ShortCircuit ==
    \A pos \in Positions :
      /\ (NotSkipped(pos) /\ AllTrue(Sorted[pos].conditions)
             /\ Processed(pos)) =>
            /\ Len(CondCalls(pos)) = Len(Sorted[pos].conditions)
            /\ \A m \in DOMAIN CondCalls(pos) : CondCalls(pos)[m].i = m
            /\ run.trace[pos].conditions = Sorted[pos].conditions
      /\ \A k \in DOMAIN Sorted[pos].conditions :
        (NotSkipped(pos) /\ FirstFalse(Sorted[pos].conditions, k)) =>
            /\ \A n \in Calls("cond", pos) : run.calls[n].i <= k
            /\ Len(CondCalls(pos)) <= k
            /\ \A m \in DOMAIN CondCalls(pos) : CondCalls(pos)[m].i = m
            /\ Calls("action", pos) = {}
            /\ Processed(pos) =>
                  /\ Len(CondCalls(pos)) = k
                  /\ run.trace[pos].conditions =
                        SubSeq(Sorted[pos].conditions, 1, k)
                  /\ ~run.trace[pos].matched
                  /\ \A f \in DOMAIN run.fired :
                        run.fired[f] # Sorted[pos].id

\* runAsync has processed a rule whose second condition of three is false.
C2_Witness ==
    /\ run.entry = "runAsync"
    /\ \E pos \in Positions :
          /\ Processed(pos)
          /\ Len(Sorted[pos].conditions) = 3
          /\ Len(run.trace[pos].conditions) = 2
          /\ ~run.trace[pos].conditions[2].result

\* The content of `effects` when the action of the rule at pos was invoked,
\* when its error was caught, and at the end of its loop iteration.
EffAt(k, pos) == run.calls[CHOOSE n \in Calls(k, pos) : TRUE].eff

\* The action of the rule at pos failed on its own: it threw, or (awaited by
\* runAsync) its promise rejected.
ActionFailed(pos) ==
    /\ Calls("caught", pos) # {}
    /\ \/ Sorted[pos].action.kind = "throw"
       \/ run.entry = "runAsync" /\ Sorted[pos].action.kind = "promise"

\* The action of the rule at pos returned a promise to run().
Misused(pos) ==
    /\ run.entry = "run"
    /\ Calls("action", pos) # {}
    /\ Sorted[pos].action.kind = "promise"

\* C3: with rollbackOnError, a failed action does not end the run, the
\* effects at the end of that rule are the effects the action was invoked
\* on, in either effectsMode, and the loop goes on to the next rule.
C3_RollbackRestores ==
    run.opts.rollbackOnError =>
        \A pos \in Positions :
            ActionFailed(pos) =>
                /\ run.status # "threw"
                /\ Calls("end", pos) # {} =>
                      EffAt("end", pos) = EffAt("action", pos)
                /\ (run.status = "done" /\ run.opts.activation = "all"
                        /\ pos < Len(Sorted)) => Processed(pos + 1)

\* C4: without rollbackOnError, a failed action (its own error, or run()'s
\* error for a promise) ends the run with that error: no result, the rule is
\* neither traced nor fired, and nothing of a later rule is invoked.
C4_ErrorPropagates ==
    ~run.opts.rollbackOnError =>
        /\ (run.status = "threw") = (\E pos \in Positions :
                                        Calls("caught", pos) # {})
        /\ \A pos \in Positions :
              Calls("caught", pos) # {} =>
                  /\ run.status = "threw"
                  /\ run.error = IF Misused(pos) THEN AsyncMisuse ELSE Boom
                  /\ run.cur.error = run.error
                  /\ \A n \in DOMAIN run.calls : run.calls[n].pos <= pos
                  /\ run.calls[Len(run.calls)].k = "caught"
                  /\ Len(run.trace) = pos - 1
                  /\ \A f \in DOMAIN run.fired :
                        run.fired[f] # Sorted[pos].id

\* runAsync rejected at the first of two rules; the second would have
\* matched.
C4_Witness ==
    /\ run.entry = "runAsync"
    /\ run.status = "threw"
    /\ run.error = Boom
    /\ Len(Sorted) = 2
    /\ Calls("caught", 1) # {}
    /\ NotSkipped(2) /\ AllTrue(Sorted[2].conditions)

\* C5: whenever an action returned a promise to run(), run() has thrown the
\* async-misuse error, under every combination of options.
C5_AsyncMisuseFatal ==
    \A pos \in Positions :
        Misused(pos) => run.status = "threw" /\ run.error = AsyncMisuse

\* C6 as claimed: when run() raises the async-misuse error the effects are
\* what they were when the action was invoked, in either effectsMode.
C6_NoMutationAtMisuse ==
    \A pos \in Positions :
        (Misused(pos) /\ Calls("caught", pos) # {}) =>
            EffAt("caught", pos) = EffAt("action", pos)

\* C6 as amended: when run() raises the async-misuse error nothing the action
\* returned has been merged or committed; under "immutable" the effects are
\* what they were when the action was invoked, under "mutable" they hold
\* exactly the in-place mutations the action made before it returned its
\* promise.
C6_NoCommitAtMisuse ==
    \A pos \in Positions :
        (Misused(pos) /\ Calls("caught", pos) # {}) =>
            /\ run.cur.error = AsyncMisuse \/ run.trace[pos].error = AsyncMisuse
            /\ run.opts.effectsMode = "immutable" =>
                  EffAt("caught", pos) = EffAt("action", pos)
            /\ run.opts.effectsMode = "mutable" =>
                  EffAt("caught", pos) =
                      IF Sorted[pos].action.pre
                      THEN PushFlag(EffAt("action", pos), Sorted[pos].id)
                      ELSE EffAt("action", pos)

\* run() under "immutable" met an action that had pushed to its effects
\* before it returned a promise.
C6_Witness ==
    /\ run.opts.effectsMode = "immutable"
    /\ \E pos \in Positions :
          /\ Misused(pos)
          /\ Calls("caught", pos) # {}
          /\ Sorted[pos].action.pre

\* What the action of `rule` does to the effects it is given when it runs to
\* its end, and whether it ends well.
ActionMutations(eff, rule) ==
    LET e1 == IF rule.action.pre THEN PushFlag(eff, rule.id) ELSE eff
    IN  IF rule.action.kind = "promise" /\ rule.action.late
        THEN PushFlag(e1, rule.id) ELSE e1

ActionSucceeds(rule) ==
    \/ rule.action.kind = "return"
    \/ rule.action.kind = "promise" /\ rule.action.ok

Matches(rule, opts) ==
    /\ getSkipReason(rule.meta, opts.includeTags, opts.excludeTags) = NoReason
    /\ AllTrue(rule.conditions)

\* The rules taken strictly one after another, each action run to its end
\* before the next rule is looked at: the effects and the fired list that
\* gives (ok: no error ended the run).
RECURSIVE Sequential(_, _, _, _)
Sequential(rs, opts, eff, fired) ==
    IF rs = <<>> THEN [effects |-> eff, fired |-> fired, ok |-> TRUE]
    ELSE LET rule == Head(rs)
             mutated == ActionMutations(eff, rule)
             after == IF ActionSucceeds(rule)
                      THEN IF IsObject(rule.action.patch)
                           THEN mergeEffects(mutated, rule.action.patch,
                                             opts.mergeStrategy)
                           ELSE mutated
                      ELSE IF opts.effectsMode = "mutable" THEN mutated
                      ELSE eff
         IN  IF ~Matches(rule, opts)
             THEN Sequential(Tail(rs), opts, eff, fired)
             ELSE IF ~ActionSucceeds(rule) /\ ~opts.rollbackOnError
             THEN [effects |-> eff, fired |-> fired, ok |-> FALSE]
             ELSE IF opts.activation = "first"
             THEN [effects |-> after, fired |-> Append(fired, rule.id),
                   ok |-> TRUE]
             ELSE Sequential(Tail(rs), opts, after, Append(fired, rule.id))

\* C7: runAsync has at most one action in flight, the one it awaits, and
\* invokes nothing while it is pending; a matched rule's mutations and
\* patch are in the effects at the end of its iteration, before anything of
\* the next rule; the effects and fired list of the result are those of
\* taking the rules one after another, whatever the actions' delays.
C7_AwaitsEachAction ==
    run.entry = "runAsync" =>
        /\ \A n \in DOMAIN run.execs :
              run.execs[n].state = "pending" => n = run.awaiting
        /\ run.awaiting # 0 =>
              /\ run.status = "running"
              /\ run.awaiting = Len(run.execs)
              /\ run.calls[Len(run.calls)].k = "action"
              /\ run.calls[Len(run.calls)].pos = run.execs[run.awaiting].pos
        /\ \A m, n \in DOMAIN run.calls :
              m < n => run.calls[m].pos <= run.calls[n].pos
        /\ \A pos \in Positions :
              (Calls("end", pos) # {} /\ Calls("action", pos) # {}
                    /\ ActionSucceeds(Sorted[pos])) =>
                 EffAt("end", pos) =
                    mergeEffects(ActionMutations(EffAt("action", pos),
                                                 Sorted[pos]),
                                 Sorted[pos].action.patch,
                                 run.opts.mergeStrategy)
        /\ run.status = "done" =>
              LET x == Sequential(Sorted, run.opts, DefaultEffects, <<>>)
              IN  x.ok /\ Content(run) = x.effects /\ run.fired = x.fired

\* runAsync, the first rule's async action done and fired, waits for the
\* second rule's async action, which has used up its delay.
C7_Witness ==
    /\ run.entry = "runAsync"
    /\ Len(run.execs) = 2
    /\ Sorted[1].action.kind = "promise" /\ Sorted[1].action.late
    /\ Sorted[2].action.kind = "promise"
    /\ run.fired = <<Sorted[1].id>>
    /\ run.execs[2].state = "pending"
    /\ run.execs[2].elapsed = MaxDelay

\* C8: under activation "first" the run ends with the first rule of the
\* sequence that matches: at most one id is fired, nothing of a later rule
\* is invoked, and rules before it that were skipped or did not match did
\* not end it; under "all" a completed run has processed every rule.
C8_Activation ==
    /\ run.opts.activation = "first" =>
          /\ Len(run.fired) <= 1
          /\ \A pos \in DOMAIN run.trace :
                run.trace[pos].matched =>
                    /\ run.status = "done"
                    /\ Len(run.trace) = pos
                    /\ run.fired = <<Sorted[pos].id>>
                    /\ \A n \in DOMAIN run.calls : run.calls[n].pos <= pos
                    /\ \A q \in 1..(pos - 1) : ~Matches(Sorted[q], run.opts)
          /\ run.status = "done" =>
                \/ Len(run.trace) = Len(Sorted)
                \/ Len(run.trace) > 0 /\ run.trace[Len(run.trace)].matched
    /\ run.opts.activation = "all" =>
          (run.status = "done" => Len(run.trace) = Len(Sorted))

\* Under "first", a run ended at the first of two rules that would both
\* have matched.
C8_Witness ==
    /\ run.opts.activation = "first"
    /\ run.status = "done"
    /\ Len(Sorted) = 2
    /\ Len(run.trace) = 1
    /\ Matches(Sorted[1], run.opts) /\ Matches(Sorted[2], run.opts)

\* The three grounds for skipping a rule with RuleMeta m.
IsDisabled(m) == m.enabled = "false"
IsFiltered(m, opts) ==
    /\ opts.includeTags # <<>>
    /\ \A i \in DOMAIN opts.includeTags, j \in DOMAIN m.tags :
          m.tags[j] # opts.includeTags[i]
IsExcluded(m, opts) ==
    \E i \in DOMAIN opts.excludeTags, j \in DOMAIN m.tags :
        m.tags[j] = opts.excludeTags[i]

\* C9: a processed rule is skipped exactly when it is disabled, filtered by
\* includeTags or excluded by excludeTags, and its skippedReason names a
\* ground that holds; a skipped rule's trace has matched false and no
\* condition traces, none of its conditions nor its action was invoked, and
\* its id is not in fired.
C9_Skips ==
    \A pos \in DOMAIN run.trace :
        LET t == run.trace[pos]
            m == Sorted[pos].meta
        IN  /\ (t.skippedReason # NoReason) =
                  (IsDisabled(m) \/ IsFiltered(m, run.opts)
                      \/ IsExcluded(m, run.opts))
            /\ t.skippedReason = "disabled" => IsDisabled(m)
            /\ t.skippedReason = "tag-filtered" => IsFiltered(m, run.opts)
            /\ t.skippedReason = "tag-excluded" => IsExcluded(m, run.opts)
            /\ t.skippedReason \in
                  {NoReason, "disabled", "tag-filtered", "tag-excluded"}
            /\ t.skippedReason # NoReason =>
                  /\ ~t.matched
                  /\ t.conditions = <<>>
                  /\ t.ruleId = Sorted[pos].id
                  /\ Calls("cond", pos) = {}
                  /\ Calls("action", pos) = {}
                  /\ \A f \in DOMAIN run.fired : run.fired[f] # t.ruleId

\* A completed run that skipped a disabled rule and an excluded one.
C9_Witness ==
    /\ run.status = "done"
    /\ \E p, q \in DOMAIN run.trace :
          /\ run.trace[p].skippedReason = "disabled"
          /\ run.trace[q].skippedReason = "tag-excluded"

\* The rule at pos was not skipped and all its conditions evaluated true.
MatchedInRun(pos) ==
    /\ run.trace[pos].skippedReason = NoReason
    /\ Len(run.trace[pos].conditions) = Len(Sorted[pos].conditions)
    /\ AllTrue(run.trace[pos].conditions)

MatchedPositions ==
    SelectSeq([pos \in DOMAIN run.trace |-> pos], LAMBDA pos : MatchedInRun(pos))

\* C10: the fired list of a result holds, in compiled order, the ids of
\* exactly the processed rules that were not skipped and whose conditions
\* all evaluated true, those whose action failed and was rolled back
\* included.
C10_Fired ==
    run.status = "done" =>
        run.fired = [k \in DOMAIN MatchedPositions |->
                        Sorted[MatchedPositions[k]].id]

\* run() completed with two rules fired, the action of the first of which
\* failed and was rolled back.
C10_Witness ==
    /\ run.entry = "run"
    /\ run.status = "done"
    /\ Len(run.trace) = 2
    /\ run.trace[1].error = Boom
    /\ run.fired = <<Sorted[1].id, Sorted[2].id>>

\* What the action of `rule` has noted when it ends.
ActionNotes(rule) == IF rule.action.note THEN <<"note">> ELSE <<>>

\* The error the catch block of the rule at pos received.
CaughtError(pos) == IF Misused(pos) THEN AsyncMisuse ELSE Boom

\* An error was raised in the run by something other than a rule's action:
\* by the facts validator, the effects validator, a condition, or by run()
\* itself on a promise.
RaisedOutsideAction(err) ==
    \/ /\ err = FactsInvalid
       /\ \E n \in DOMAIN run.calls : run.calls[n].k = "validateFacts"
       /\ validateFactsFn = "reject"
    \/ /\ err = EffectsInvalid
       /\ \E n \in DOMAIN run.calls :
             /\ run.calls[n].k = "validateEffects"
             /\ EffectsRejected(run.validateEffectsFn, run.calls[n].eff)
    \/ /\ err = CondBoom
       /\ \E n \in DOMAIN run.calls :
             /\ run.calls[n].k = "cond"
             /\ Throws(Sorted[run.calls[n].pos].conditions[run.calls[n].i])
    \/ /\ err = AsyncMisuse
       /\ \E pos \in Positions : Misused(pos)

\* The trace of a rule whose action failed under rollbackOnError.
C11_TraceOfRolledBack ==
    run.opts.rollbackOnError =>
        \A pos \in Positions :
            (Calls("caught", pos) # {} /\ Processed(pos)) =>
                /\ run.trace[pos].matched
                /\ run.trace[pos].error = CaughtError(pos)
                /\ run.trace[pos].notes =
                      ActionNotes(Sorted[pos]) \o <<ErrorNote(CaughtError(pos))>>
                /\ run.trace[pos].skippedReason = NoReason

\* C11: under rollbackOnError the trace of a rule whose action failed has
\* matched true, the error as a string and the note 'error: <error>' after
\* the action's own notes; and no other error is swallowed: an error raised
\* by a validator, by a condition or by run() itself ends the run with that
\* error.
C11_OnlyActionErrorSwallowed ==
    /\ C11_TraceOfRolledBack
    /\ \A err \in {FactsInvalid, EffectsInvalid, CondBoom, AsyncMisuse} :
          RaisedOutsideAction(err) =>
              run.status = "threw" /\ run.error = err

\* The same without the error run() raises on a promise.
C11_HooksPropagate ==
    /\ C11_TraceOfRolledBack
    /\ \A err \in {FactsInvalid, EffectsInvalid, CondBoom} :
          RaisedOutsideAction(err) =>
              run.status = "threw" /\ run.error = err

\* The call of the action of the rule at pos.
ExecOf(pos) == run.execs[CHOOSE n \in DOMAIN run.execs : run.execs[n].pos = pos]

\* What the effects are after the action of `rule`, called on `eff`, has
\* completed without error and its patch is merged.
AfterAction(eff, rule, strategy) ==
    IF IsObject(rule.action.patch)
    THEN mergeEffects(ActionMutations(eff, rule), rule.action.patch, strategy)
    ELSE ActionMutations(eff, rule)

\* C12: under "immutable" every action is called on an object of its own,
\* not the committed one nor one an earlier action was given; the committed
\* effects stay as they were while the action runs, become the working copy
\* with the patch merged once it has completed without error, and are
\* unchanged after it failed; nothing changes them between two rules.
C12_ImmutableCommit ==
    run.opts.effectsMode = "immutable" =>
        /\ \A n \in DOMAIN run.execs :
              /\ run.execs[n].working > 1
              /\ \A m \in 1..(n - 1) :
                    run.execs[m].working # run.execs[n].working
        /\ \A pos \in Positions :
              Calls("action", pos) # {} =>
                 /\ Calls("end", pos) = {} => Content(run) = EffAt("action", pos)
                 /\ (Calls("end", pos) # {} /\ Calls("caught", pos) = {}) =>
                       /\ EffAt("end", pos) =
                             AfterAction(EffAt("action", pos), Sorted[pos],
                                         run.opts.mergeStrategy)
                       /\ run.heap[ExecOf(pos).working] = EffAt("end", pos)
                 /\ (Calls("end", pos) # {} /\ Calls("caught", pos) # {}) =>
                       EffAt("end", pos) = EffAt("action", pos)
        /\ \A n \in DOMAIN run.calls :
              (run.calls[n].k = "end" /\ n < Len(run.calls)) =>
                  run.calls[n + 1].eff = run.calls[n].eff

\* Under "immutable" and rollbackOnError the first rule's action pushed to
\* its effects and failed, and the second rule's action then completed.
C12_Witness ==
    /\ run.opts.effectsMode = "immutable"
    /\ run.opts.rollbackOnError
    /\ run.status = "done"
    /\ Len(Sorted) = 2
    /\ Sorted[1].action.kind = "throw" /\ Sorted[1].action.pre
    /\ run.fired = <<Sorted[1].id, Sorted[2].id>>
    /\ Calls("caught", 2) = {}
    /\ Content(run) = AfterAction(DefaultEffects, Sorted[2],
                                  run.opts.mergeStrategy)

\* The keys of `target` that `patch` does not name are in `result` with
\* their value, at this level and, where the patch descends into a field of
\* the target, below it; and `result` has no key from elsewhere.
RECURSIVE Framed(_, _, _)
Framed(target, patch, result) ==
    /\ Keys(result) = Keys(target) \cup Keys(patch)
    /\ \A k \in Keys(target) \ Keys(patch) : result.v[k] = target.v[k]
    /\ \A k \in Keys(target) \cap Keys(patch) :
          (IsPlainObject(target.v[k]) /\ IsPlainObject(patch.v[k])) =>
              /\ IsPlainObject(result.v[k])
              /\ Framed(target.v[k], patch.v[k], result.v[k])

\* C13: a deep merge keeps every key the patch does not name, at every
\* level; {stats: {count: 2}} onto {stats: {count: 0}, fired: []} gives
\* {stats: {count: 2}, fired: []}.
C13_DeepMergeFrame ==
    (merge.done /\ merge.strategy = "deep") =>
        /\ Framed(merge.target, merge.patch, merge.result)
        /\ (/\ merge.target = Obj([stats |-> Obj([count |-> Num(0)]),
                                   fired |-> Arr(<<>>)])
            /\ merge.patch = Obj([stats |-> Obj([count |-> Num(2)])]))
               => merge.result = Obj([stats |-> Obj([count |-> Num(2)]),
                                      fired |-> Arr(<<>>)])

\* A deep merge of a patch that names one nested key onto a target whose
\* nested object has that key and a sibling, next to a top-level sibling.
C13_Witness ==
    /\ merge.done
    /\ merge.strategy = "deep"
    /\ merge.target = Obj([stats |-> Obj([count |-> Num(0),
                                          hits |-> Num(0)]),
                           fired |-> Arr(<<>>)])
    /\ merge.patch = Obj([stats |-> Obj([count |-> Num(2)])])
    /\ merge.result = Obj([stats |-> Obj([count |-> Num(2),
                                          hits |-> Num(0)]),
                           fired |-> Arr(<<>>)])

\* The deep merge as stated: a patch value that is a plain object is merged
\* into the target field, taken as {} unless it is a plain object; any
\* other patch value (a Date or a class instance as well as an array or a
\* primitive) replaces the field.
RECURSIVE DeepMergeAsStated(_, _)
DeepMergeAsStated(target, patch) ==
    [t |-> target.t,
     v |-> [k \in Keys(target) \cup Keys(patch) |->
              IF k \notin Keys(patch) THEN target.v[k]
              ELSE IF IsPlainObject(patch.v[k])
                   THEN DeepMergeAsStated(IF IsPlainObject(Get(target, k))
                                          THEN target.v[k] ELSE EmptyObj,
                                          patch.v[k])
                   ELSE patch.v[k]]]

\* Whether a value holds, at any level, an object that is neither plain nor
\* an array.
RECURSIVE HasInstance(_)
HasInstance(value) ==
    \/ value.t = "inst"
    \/ value.t = "obj" /\ \E k \in DOMAIN value.v : HasInstance(value.v[k])

\* C14: under "assign" every top-level key of the patch replaces the
\* target's field and the other fields stay; under "deep" plain objects of
\* the patch are merged recursively into the target's plain objects (or into
\* {}), and every other patch value replaces the field whole.
C14_MergeSemantics ==
    merge.done =>
        /\ Keys(merge.result) = Keys(merge.target) \cup Keys(merge.patch)
        /\ merge.strategy = "assign" =>
              /\ \A k \in Keys(merge.patch) :
                    merge.result.v[k] = merge.patch.v[k]
              /\ \A k \in Keys(merge.target) \ Keys(merge.patch) :
                    merge.result.v[k] = merge.target.v[k]
        /\ merge.strategy = "deep" =>
              merge.result = DeepMergeAsStated(merge.target, merge.patch)

\* The same for targets and patches of plain objects, arrays and
\* primitives only.
C14_MergeOfPlainData ==
    (~HasInstance(merge.target) /\ ~HasInstance(merge.patch)) =>
        C14_MergeSemantics

\* The places in the history of the run of the calls of kind k.
CallsOf(k) == { n \in DOMAIN run.calls : run.calls[n].k = k }

\* C15: a run with a facts validator calls it once, first of all; a run with
\* an effects validator calls it on the factory's fresh object right after
\* the factory and before anything of a rule, and once more, last of all,
\* on the final effects: twice in a run that completes; a validator that
\* throws ends the run with its error and nothing is called after it (after
\* the facts validator: no factory, no condition, no action).
C15_Validators ==
    run.status # "idle" =>
        /\ Cardinality(CallsOf("factory")) <= 1
        /\ validateFactsFn # Unset =>
              /\ CallsOf("validateFacts") = {1}
              /\ validateFactsFn = "reject" =>
                    /\ run.status = "threw" /\ run.error = FactsInvalid
                    /\ Len(run.calls) = 1
                    /\ run.heap = <<>> /\ run.execs = <<>>
        /\ validateFactsFn = Unset => CallsOf("validateFacts") = {}
        /\ run.validateEffectsFn = Unset => CallsOf("validateEffects") = {}
        /\ (run.validateEffectsFn # Unset /\ validateFactsFn # "reject") =>
              LET f == CHOOSE n \in CallsOf("factory") : TRUE
                  v == CallsOf("validateEffects")
              IN  /\ CallsOf("factory") # {}
                  /\ f + 1 \in v
                  /\ run.calls[f + 1].eff = engine.defaultEffectsFactory
                  /\ \A n \in 1..f : run.calls[n].k \in {"validateFacts",
                                                          "factory"}
                  /\ Cardinality(v) <= 2
                  /\ \A n \in v : n = f + 1 \/ n = Len(run.calls)
                  /\ run.status = "done" =>
                        /\ Cardinality(v) = 2
                        /\ run.calls[Len(run.calls)].eff =
                              run.calls[Len(run.calls) - 1].eff
                        /\ run.calls[Len(run.calls) - 1].k \in
                              {"end", "validateEffects"}
                  /\ \A n \in v :
                        EffectsRejected(run.validateEffectsFn,
                                        run.calls[n].eff) =>
                            /\ run.status = "threw"
                            /\ run.error = EffectsInvalid
                            /\ n = Len(run.calls)
                  /\ run.status = "running" => Cardinality(v) = 1

\* A run with both validators has completed after two rules fired.
C15_Witness ==
    /\ run.status = "done"
    /\ validateFactsFn = "pass"
    /\ run.validateEffectsFn = "rejectFlagged"
    /\ Len(run.fired) = 2
    /\ Cardinality(CallsOf("validateEffects")) = 2
    /\ run.calls[1].k = "validateFacts"

\* The effects validator threw on the final effects of a run that fired a
\* rule.
C15_FinalRejected ==
    /\ run.status = "threw" /\ run.error = EffectsInvalid
    /\ Len(run.fired) > 0
    /\ Cardinality(CallsOf("validateEffects")) = 2

\* C16: compile() on a builder that never had defaultEffects() called throws
\* 'defaultEffects() is required before compile().' and yields no engine (no
\* engine ever holds a missing factory, and the step that throws leaves both
\* engine slots as they were); once a factory is registered no call throws
\* that error, and the engine a compile() yields holds the builder's factory
\* and the sorted copy of however many rules were finalized, zero included.
C16_CompileRequiresDefaults ==
    /\ [](\A k \in {1, 2} :
            EngineOf(k).compiled => EngineOf(k).defaultEffectsFactory # Undef)
    /\ [][/\ thrown' = CompileError =>
                /\ defaultEffectsFactory = Undef
                /\ UNCHANGED <<engine, engine2, builder>>
          /\ defaultEffectsFactory # Undef => thrown' # CompileError
          /\ \A k \in {1, 2} :
                EngineOf(k)' # EngineOf(k) =>
                    /\ thrown' = NoError
                    /\ EngineOf(k)'.compiled
                    /\ EngineOf(k)'.defaultEffectsFactory
                            = defaultEffectsFactory
                    /\ EngineOf(k)'.sortedRules = sortRules(rules)
                    /\ Len(EngineOf(k)'.sortedRules) = Len(rules)]_vars

\* compile() has just thrown on a builder that holds rules but no factory.
C16_Witness ==
    /\ thrown = CompileError
    /\ rules # <<>>
    /\ ~engine.compiled

\* One engine was compiled from no rule at all, a later one from MaxRules.
C16_CompiledEmptyAndFull ==
    /\ engine.compiled /\ engine.sortedRules = <<>>
    /\ engine2.compiled /\ Len(engine2.sortedRules) = MaxRules

\* C17: end() on a rule builder without an action throws 'then() is required
\* before end().' and leaves the ruleset unchanged: the step adds no rule and
\* takes no order number, no rule in the list lacks an action, and the order
\* numbers of the finalized rules stay 0, 1, 2, ... without a gap, so the
\* next rule finalized gets the number the failed end() would have got.
C17_EndRequiresAction ==
    /\ [](/\ nextOrder = Len(rules)
          /\ \A i \in 1..Len(rules) :
                /\ rules[i].order = i - 1
                /\ rules[i].action # NoAction)
    /\ [][/\ thrown' = EndError => UNCHANGED <<rules, nextOrder>>
          /\ rules' # rules =>
                /\ thrown' = NoError
                /\ Len(rules') = Len(rules) + 1
                /\ SubSeq(rules', 1, Len(rules)) = rules
                /\ rules'[Len(rules')].order = nextOrder]_vars

\* A rule was finalized after an end() that threw: fewer rules than builders.
C17_Witness ==
    /\ thrown = NoError
    /\ rules # <<>>
    /\ rules[Len(rules)].id # RuleIds[Len(rules)]
    /\ ruleCalls > Len(rules)

\* The ids of a rule sequence, and the ids of the rules a run has processed.
Ids(rs) == [i \in DOMAIN rs |-> rs[i].id]
TraceIds(r) == [i \in DOMAIN r.trace |-> r.trace[i].ruleId]

\* C18: an engine's rule sequence is computed once, at compile(): it is the
\* sorted copy of the rules finalized up to that compile() and no later step
\* changes it; every run of an engine processes that sequence in its order
\* (all of it when the run completes), so a rule finalized after the
\* compile() is neither processed nor fired by a run of that engine.
C18_SequenceFixedAtCompile ==
    /\ [](/\ \A k \in {1, 2} :
                EngineOf(k).compiled =>
                    /\ Len(EngineOf(k).sortedRules) <= Len(rules)
                    /\ EngineOf(k).sortedRules =
                        sortRules(SubSeq(rules, 1,
                                         Len(EngineOf(k).sortedRules)))
          /\ run.of # 0 =>
                LET seq == Ids(EngineOf(run.of).sortedRules)
                IN  /\ Len(run.trace) <= Len(seq)
                    /\ TraceIds(run) = SubSeq(seq, 1, Len(run.trace))
                    /\ run.status = "done" => Len(run.trace) = Len(seq)
                    /\ \A i \in DOMAIN run.fired :
                          \E j \in DOMAIN seq : run.fired[i] = seq[j])
    /\ [][\A k \in {1, 2} :
            EngineOf(k).compiled => EngineOf(k)' = EngineOf(k)]_vars

\* The first engine completed a run after a rule that would sort first was
\* finalized on the builder.
C18_Witness ==
    /\ run.of = 1
    /\ run.status = "done"
    /\ engine.sortedRules # <<>>
    /\ Len(rules) > Len(engine.sortedRules)
    /\ rules[Len(rules)].priority > engine.sortedRules[1].priority
    /\ run.fired = Ids(engine.sortedRules)

\* An engine compiled afterwards fired the later rule first.
C18_LaterEngineRuns ==
    /\ run.of = 2
    /\ run.status = "done"
    /\ Len(engine2.sortedRules) > Len(engine.sortedRules)
    /\ run.fired # <<>>
    /\ run.fired[1] = rules[Len(rules)].id
    /\ \A j \in DOMAIN engine.sortedRules :
          engine.sortedRules[j].id # run.fired[1]

\* C19: compile() freezes the ruleset into an engine: whatever the builder
\* is told after compile(), a run of the engine is the run of the rules, the
\* factory, the validators and the telemetry adapter the builder held when
\* the engine was compiled.
C19_CompileFreezes ==
    run.of # 0 =>
        LET e == EngineOf(run.of)
        IN  run = [runSync(RunInput(e, e.at.validateFactsFn,
                                    e.at.validateEffectsFn,
                                    e.at.telemetryAdapter), run.opts)
                     EXCEPT !.of = run.of]

\* The part of C19 that holds: a run of an engine is the run of the rules
\* and the factory held at compile(), under some validators and adapter.
C19_RulesAndFactoryFrozen ==
    run.of # 0 =>
        \E vf \in FactsValidators \cup {Unset} :
            run = [runSync(RunInput(EngineOf(run.of), vf,
                                    run.validateEffectsFn,
                                    run.telemetryAdapter), run.opts)
                     EXCEPT !.of = run.of]

\* A run of the first engine after the builder got another factory and
\* another rule.
C19_FrozenWitness ==
    /\ run.of = 1
    /\ run.status = "done"
    /\ defaultEffectsFactory # engine.defaultEffectsFactory
    /\ Len(rules) > Len(engine.sortedRules)

\* One runAsync run executed alone, from its call to its end: whenever it
\* is suspended, its awaited action settles and the run goes on.
RECURSIVE Drive(_, _)
Drive(r, sortedRules) ==
    IF r.status # "running" \/ r.awaiting = 0 THEN r
    ELSE IF r.execs[r.awaiting].state = "pending"
         THEN Drive(settleAction(r, r.awaiting, sortedRules), sortedRules)
         ELSE Drive(asyncResume(r, sortedRules), sortedRules)

Alone(opts) ==
    LET input == RunInput(engine, validateFactsFn, validateEffectsFn,
                          telemetryAdapter)
    IN  Drive(asyncLoop(StartRun("runAsync", opts, input, <<>>), input.rules),
              input.rules)

IsPrefix(s, t) == Len(s) <= Len(t) /\ s = SubSeq(t, 1, Len(s))

\* C20: however two runAsync runs on one engine interleave, each run is the
\* run executed alone: at every moment what it has called (with the effects
\* it saw at each call), fired and traced is the beginning of what it does
\* alone, and once it is over its effects, fired, trace, calls and error are
\* those of the run alone, and stay so whatever the other run does; the two
\* runs never hold the same effects object.
C20_RunsIsolated ==
    /\ \A n \in {1, 2} :
          RunOf(n).status # "idle" =>
              LET r == RunOf(n)
                  a == Alone(r.opts)
              IN  /\ IsPrefix(r.calls, a.calls)
                  /\ IsPrefix(r.trace, a.trace)
                  /\ IsPrefix(r.fired, a.fired)
                  /\ r.status # "running" =>
                        /\ r.status = a.status
                        /\ r.error = a.error
                        /\ r.calls = a.calls
                        /\ r.trace = a.trace
                        /\ r.fired = a.fired
                        /\ Content(r) = Content(a)
    /\ run.status # "idle" /\ run2.status # "idle" =>
          run.effects # run2.effects

\* Both runs are suspended at an await, each after it fired a rule.
C20_Witness ==
    /\ run.status = "running" /\ run.awaiting # 0 /\ run.fired # <<>>
    /\ run2.status = "running" /\ run2.awaiting # 0 /\ run2.fired # <<>>

\* Both runs are over, started in one order and finished in the other, with
\* different effects.
C20_BothOver ==
    /\ run.status = "done" /\ run2.status = "done"
    /\ Content(run) # Content(run2)
    /\ Content(run) # DefaultEffects
    /\ Content(run2) # DefaultEffects

\* A trace without its time measurements.
Timeless(trace) == [i \in DOMAIN trace |-> [trace[i] EXCEPT !.durationMs = 0]]

\* C21: two separate run() calls on one engine with the same facts and
\* options under effectsMode "immutable" end the same way, with structurally
\* equal effects, trace and fired list, and the two results hold different
\* effects objects.
C21_ImmutableRunsEqual ==
    run2.status # "idle" /\ run.opts.effectsMode = "immutable" =>
        /\ run2.opts = run.opts
        /\ run2.status = run.status
        /\ run2.error = run.error
        /\ run2.trace = run.trace
        /\ run2.fired = run.fired
        /\ run.status = "done" =>
              /\ Content(run2) = Content(run)
              /\ run2.effects # run.effects

\* C21, amended: the traces of the two runs are equal in everything but the
\* durationMs of their rule traces.
C21_EqualButForDurations ==
    run2.status # "idle" /\ run.opts.effectsMode = "immutable" =>
        /\ run2.opts = run.opts
        /\ run2.status = run.status
        /\ run2.error = run.error
        /\ Timeless(run2.trace) = Timeless(run.trace)
        /\ run2.fired = run.fired
        /\ run.status = "done" =>
              /\ Content(run2) = Content(run)
              /\ run2.effects # run.effects

\* Both immutable runs completed after committing the clones of two rules,
\* and the clock gave them different durations.
C21_Witness ==
    /\ run.opts.effectsMode = "immutable"
    /\ run.status = "done" /\ run2.status = "done"
    /\ Len(run.fired) = 2
    /\ Content(run) # DefaultEffects
    /\ run.trace # run2.trace

\* C22: on a ruleset whose actions are all synchronous, runAsync() with
\* the facts and options of a run() ends as that run() ended: it resolves
\* exactly when run() returned, then with equal effects, fired list and
\* trace (rule ids in order, matched flags, condition traces, skipped
\* reasons, notes, errors), and else rejects with the error run() threw;
\* until it ends, what it has fired and traced is what run() did first.
C22_AsyncEqualsSync ==
    run2.status # "idle" =>
        /\ IsPrefix(Timeless(run2.trace), Timeless(run.trace))
        /\ IsPrefix(run2.fired, run.fired)
        /\ run2.status # "running" =>
              /\ run2.status = run.status
              /\ run2.error = run.error
              /\ Timeless(run2.trace) = Timeless(run.trace)
              /\ run2.fired = run.fired
              /\ run.status = "done" => Content(run2) = Content(run)

\* Both entry points completed a run that fired one rule whose action threw
\* and was rolled back, and one whose action succeeded.
C22_Witness ==
    /\ run.status = "done" /\ run2.status = "done"
    /\ run2.entry = "runAsync"
    /\ Len(run2.fired) = 2
    /\ \E i \in DOMAIN run2.trace : run2.trace[i].error = Boom
    /\ Content(run2) # DefaultEffects

\* runAsync() rejected as run() threw.
C22_BothThrew ==
    /\ run.status = "threw" /\ run2.status = "threw"
    /\ run2.entry = "runAsync"
    /\ run2.trace # <<>>

Given == SelectSeq(opEval.args, IsFunction)

RECURSIVE Tests(_)
Tests(c) ==
    IF c.kind = "atomic" THEN <<c.label>>
    ELSE Concat([i \in DOMAIN c.children |-> Tests(c.children[i])])

RECURSIVE Truth(_)
Truth(c) ==
    CASE c.kind = "atomic" -> c.result
      [] c.kind = "and" -> \A i \in DOMAIN c.children : Truth(c.children[i])
      [] c.kind = "or" -> \E i \in DOMAIN c.children : Truth(c.children[i])
      [] OTHER -> ~Truth(c.children[1])

\* C24: op.and and op.or call every child condition once per evaluation,
\* in argument order, also after the result is decided; the trace has one
\* child trace per child, in that order, and left lists the children's
\* labels. op.not calls its one child once and its trace has one child.
C24_EveryChildEvaluated ==
    opEval.done =>
        LET t == opEval.out.trace
        IN  /\ opEval.out.calls =
                   Concat([i \in DOMAIN Given |-> Tests(Given[i])])
            /\ Len(t.children) = Len(Given)
            /\ \A i \in DOMAIN Given : t.children[i].label = Given[i].label
            /\ opEval.kind \in {"and", "or"} =>
                  t.left = Arr([i \in DOMAIN Given |-> Str(Given[i].label)])
            /\ opEval.kind = "not" =>
                  /\ Len(t.children) = 1
                  /\ t.left = Str(Given[1].label)

\* An and whose first child is false, or an or whose first child is true,
\* was evaluated, and its second child was called all the same.
C24_Witness ==
    /\ opEval.done
    /\ Len(Given) = 2
    /\ \/ opEval.kind = "and" /\ ~Truth(Given[1])
       \/ opEval.kind = "or" /\ Truth(Given[1])
    /\ Len(opEval.out.trace.children) = 2
    /\ Len(opEval.out.calls) >= 2

\* C25: the result of op.and is the conjunction of its children's results,
\* of op.or their disjunction, of op.not the negation of its child's
\* result; and() without children is true and or() without children is
\* false, with or without a leading label argument.
C25_BooleanResult ==
    opEval.done =>
        LET result == opEval.out.trace.result
        IN  /\ opEval.kind = "and" =>
                  result = \A i \in DOMAIN Given : Truth(Given[i])
            /\ opEval.kind = "or" =>
                  result = \E i \in DOMAIN Given : Truth(Given[i])
            /\ opEval.kind = "not" => result = ~Truth(Given[1])
            /\ Given = <<>> => result = (opEval.kind = "and")

\* or() was evaluated with a label and no condition.
C25_Witness ==
    /\ opEval.done
    /\ opEval.kind = "or"
    /\ Len(opEval.args) = 1
    /\ Given = <<>>
    /\ ~opEval.out.trace.result

\* An and of two true children, the second one a composite, given after a
\* label.
C25_LabelledAnd ==
    /\ opEval.done
    /\ opEval.kind = "and"
    /\ Len(opEval.args) = 3
    /\ opEval.out.trace.label = "range-check"
    /\ opEval.out.trace.result
    /\ Given[2].kind = "or"

\* The names some register call succeeded for.
Registered == DOMAIN opCall.registered

\* C26: op.register on a name that is already registered throws 'Operator
\* "<name>" is already registered.' and leaves the registry unchanged:
\* the name keeps the factory it was first registered with, op.use(name)
\* builds its condition with that factory, and op.list() gives the same
\* names as before.
C26_DuplicateRejected ==
    /\ [](/\ \A name \in Registered :
                /\ name \in DOMAIN registry
                /\ registry[name] = opCall.registered[name]
          /\ opCall.fn = "use" /\ opCall.name \in Registered =>
                /\ opCall.threw = NoError
                /\ opCall.value = Build(opCall.registered[opCall.name]))
    /\ [][opCall'.fn = "register" /\ opCall'.name \in Registered =>
            /\ opCall'.threw = AlreadyRegistered(opCall'.name)
            /\ registry' = registry
            /\ sortedKeys(registry') = sortedKeys(registry)]_vars

\* register has just thrown for a registered name and another factory.
C26_Witness ==
    /\ opCall.fn = "register"
    /\ opCall.name = "unique-op"
    /\ opCall.threw =
          "Error: Operator \"unique-op\" is already registered."
    /\ "unique-op" \in Registered
    /\ opCall.factory # registry["unique-op"]

\* What C27 says of a call on one of `names`: use throws 'is not registered'
\* for a name never registered, has is true exactly for the registered
\* names, and list gives them sorted.
AnswersAsRegistered(names) ==
    /\ opCall.fn = "use" /\ opCall.name \in names \ Registered =>
          opCall.threw = NotRegistered(opCall.name)
    /\ opCall.fn = "has" /\ opCall.name \in names =>
          opCall.value.v = (opCall.name \in Registered)
    /\ opCall.fn = "list" =>
          /\ { opCall.value.v[i] : i \in DOMAIN opCall.value.v } = Registered
          /\ \A i, j \in DOMAIN opCall.value.v :
                i < j => \E a, b \in DOMAIN OperatorNames :
                            /\ a < b
                            /\ OperatorNames[a] = opCall.value.v[i]
                            /\ OperatorNames[b] = opCall.value.v[j]

\* register succeeds for a name of `names` never registered, and a
\* registered name stays registered.
RegistersNew(names) ==
    /\ opCall'.fn = "register" /\ opCall'.name \in names \ Registered =>
          /\ opCall'.threw = NoError
          /\ opCall'.name \in DOMAIN registry'
    /\ Registered \subseteq DOMAIN opCall'.registered

\* C27: after any sequence of op.register calls, op.use(name) throws
\* 'Operator "<name>" is not registered.' for every name never registered,
\* op.register succeeds for every such name, op.has(name) is true exactly
\* for the registered names, which are what op.list() returns, sorted, and
\* a registered name stays registered.
C27_RegisteredExactly ==
    /\ []AnswersAsRegistered(Names)
    /\ [][RegistersNew(Names)]_vars

\* The same for the names Object.prototype does not define.
C27_OwnNamesOnly ==
    /\ []AnswersAsRegistered(Names \ PrototypeNames)
    /\ [][RegistersNew(Names \ PrototypeNames)]_vars

\* has(name) answered for a name registered after another one, and list()
\* for three names.
C27_HasAfterRegister ==
    /\ opCall.fn = "has"
    /\ opCall.value.v
    /\ Registered = {"is-even", "positive", "unique-op"}

\* The facts as data: whether current holds the segment itself, and the
\* value found by walking the segments the data holds, undefined as soon as
\* a segment is missing or the value at hand is null, undefined or a
\* primitive.
HasSegment(current, part) ==
    CASE current.t \in {"obj", "inst"} -> part \in DOMAIN current.v
      [] current.t = "arr" ->
            \/ part = "length"
            \/ part \in DOMAIN Indices /\ Indices[part] <= Len(current.v)
      [] OTHER -> FALSE
OwnSegment(current, part) ==
    CASE current.t \in {"obj", "inst"} -> current.v[part]
      [] part = "length" -> Num(Len(current.v))
      [] OTHER -> current.v[Indices[part]]
RECURSIVE Stated(_, _, _)
Stated(current, parts, i) ==
    IF i > Len(parts) THEN current
    ELSE IF HasSegment(current, parts[i])
         THEN Stated(OwnSegment(current, parts[i]), parts, i + 1)
         ELSE Undef

\* get and eq answer as the walk over the data says.
AsStated ==
    LET want == Stated(fieldCall.facts, fieldCall.parts, 1)
    IN  /\ fieldCall.got # <<>> => fieldCall.got[1] = want
        /\ fieldCall.cond # <<>> =>
              /\ fieldCall.cond[1].left = want
              /\ fieldCall.cond[1].result = (want = fieldCall.value)

\* C28: field(path).get(facts) walks the dotted path key by key and returns
\* undefined, without throwing, when a segment is missing or an
\* intermediate value is null, undefined or a primitive; a condition built
\* on such a path evaluates with left = undefined, so that eq(undefined)
\* yields true.
C28_BrokenPathsUndefined == AsStated

\* The same for the paths with no segment that Object.prototype defines.
C28_DataPathsOnly ==
    (\A i \in DOMAIN fieldCall.parts :
        fieldCall.parts[i] \notin PrototypeNames) => AsStated

\* get and eq(undefined) called on user.age.value where user.age is 30.
C28_InvalidPath ==
    /\ fieldCall.facts = Obj("user" :> Obj("age" :> Num(30)))
    /\ fieldCall.parts = <<"user", "age", "value">>
    /\ fieldCall.got = <<Undef>>
    /\ fieldCall.cond # <<>>
    /\ fieldCall.value = Undef
    /\ fieldCall.cond[1].result

\* The span an event belongs to, and the events of one kind on a span.
SpanKey(e) == <<e.name, e.pos, e.i>>
RunSpan == <<"rulit.run", 0, 0>>
SpanEvents(ev, key) ==
    { n \in DOMAIN run.spans :
        run.spans[n].ev = ev /\ SpanKey(run.spans[n]) = key }

Over == run.status \in {"done", "threw"}

\* What the step a span wraps threw or rejected with (NoError: it returned,
\* resolved, or is not over), read off the rules and the run, not the spans:
\* the run's own error, a condition whose test throws, an action that threw
\* or, under runAsync, rejected.
StepError(key) ==
    LET sortedRules == EngineOf(run.of).sortedRules
        name == key[1]
        pos == key[2]
    IN  CASE name = "rulit.run" ->
               IF run.status = "threw" THEN run.error ELSE NoError
          [] name = "rulit.condition" ->
               IF Throws(sortedRules[pos].conditions[key[3]])
               THEN CondBoom ELSE NoError
          [] OTHER ->
               IF \E n \in DOMAIN run.execs :
                     /\ run.execs[n].pos = pos
                     /\ \/ run.execs[n].state = "threw"
                        \/ /\ run.entry = "runAsync"
                           /\ run.execs[n].state = "rejected"
               THEN Boom ELSE NoError

\* Where an error a span reported went on to: out of the run, or, for an
\* action's error under rollbackOnError, into the rule's trace.
Rethrown(key, error) ==
    IF key[1] = "rulit.rule" /\ run.opts.rollbackOnError
    THEN key[2] \in DOMAIN run.trace => run.trace[key[2]].error = error
    ELSE run.status = "threw" /\ run.error = error

\* C29: with a telemetry adapter attached, every span the engine starts
\* (rulit.run, rulit.rule, rulit.condition) is ended exactly once, whether
\* the wrapped step returns or throws, in run() and in runAsync(); when the
\* step throws or rejects, the exception is reported to the span right
\* before the span is ended and the same error is rethrown; every rule and
\* condition span starts and ends while the run span of its run is open.
C29_SpansEndedOnce ==
    /\ run.telemetryAdapter = Unset => run.spans = <<>>
    /\ run.telemetryAdapter # Unset /\ run.status # "idle" =>
          /\ run.spans # <<>>
          /\ SpanKey(run.spans[1]) = RunSpan
          /\ run.spans[1].ev = "start"
    /\ \A n \in DOMAIN run.spans :
          LET key == SpanKey(run.spans[n])
              starts == SpanEvents("start", key)
              ends == SpanEvents("end", key)
              reports == SpanEvents("exception", key)
          IN  /\ Cardinality(starts) = 1
              /\ Cardinality(ends) <= 1
              /\ Over => Cardinality(ends) = 1
              /\ \A s \in starts, e \in ends : s < e
              /\ ends = {} =>
                    \/ key = RunSpan
                    \/ /\ run.awaiting # 0
                       /\ key = <<"rulit.rule", run.execs[run.awaiting].pos, 0>>
              /\ ends # {} =>
                    /\ StepError(key) = NoError => reports = {}
                    /\ StepError(key) # NoError =>
                          /\ Cardinality(reports) = 1
                          /\ \A x \in reports :
                                /\ x + 1 \in ends
                                /\ run.spans[x].error = StepError(key)
                                /\ Rethrown(key, run.spans[x].error)
              /\ ends = {} => reports = {}
              /\ key # RunSpan =>
                    \A s \in SpanEvents("start", RunSpan),
                       e \in SpanEvents("end", RunSpan) :
                        \A m \in starts \cup ends : s < m /\ m < e

\* A runAsync over with a rule whose action rejected under rollbackOnError:
\* its span reported the error and was ended, and so was the run's.
C29_Witness ==
    /\ run.entry = "runAsync"
    /\ run.status = "done"
    /\ run.opts.rollbackOnError
    /\ SpanEvents("exception", <<"rulit.rule", 1, 0>>) # {}
    /\ SpanEvents("end", <<"rulit.condition", 1, 1>>) # {}
    /\ SpanEvents("end", RunSpan) = {Len(run.spans)}

\* A run() ended by a condition that threw: the condition's span and the
\* run's span both reported the error.
C29_ConditionThrew ==
    /\ run.entry = "run"
    /\ run.status = "threw"
    /\ run.error = CondBoom
    /\ SpanEvents("exception", RunSpan) # {}
    /\ \E pos \in 1..MaxRules :
          SpanEvents("exception", <<"rulit.condition", pos, 2>>) # {}

\* The newest run of the history is the run that just ended.
NewestIsRun ==
    /\ traceLog.traces # <<>>
    /\ LET newest == traceLog.traces[Len(traceLog.traces)]
       IN  /\ newest.id = traceLog.traceCounter - 1
           /\ newest.trace = run.trace
           /\ newest.fired = run.fired

\* The history holds the last traceLimit of `count` runs, oldest first.
HistoryOf(count) ==
    /\ traceLog.traceCounter = count
    /\ Len(traceLog.traces) =
          IF count < traceLimit THEN count ELSE traceLimit
    /\ \A n \in DOMAIN traceLog.traces :
          traceLog.traces[n].id = count - Len(traceLog.traces) + n - 1

\* C30: every invocation of run() or runAsync() on an engine of a
\* registered ruleset invokes registry.recordTrace exactly once, with that
\* run's trace and fired list, so that the ruleset's trace history grows by
\* one run per invocation, up to the history limit.
C30_EveryRunRecorded ==
    /\ run.status \in {"done", "threw"} =>
          /\ run.recorded = 1
          /\ NewestIsRun
          /\ HistoryOf(traceLog.invocations)
    /\ run.status = "running" =>
          /\ run.recorded = 0
          /\ HistoryOf(traceLog.invocations - 1)

\* The same for the invocations that return a result: a run that throws or
\* rejects records nothing.
C30_ReturnedRunsRecorded ==
    /\ run.recorded = (IF run.status = "done" THEN 1 ELSE 0)
    /\ run.status = "done" => NewestIsRun
    /\ HistoryOf(traceLog.traceCounter)
    /\ traceLog.traceCounter <= traceLog.invocations
    /\ run.status \in {"idle", "done"} /\ run.opts.rollbackOnError =>
          HistoryOf(traceLog.invocations)

\* One run more than the history holds: the oldest run was dropped.
C30_HistoryFull ==
    /\ run.status = "done"
    /\ traceLog.invocations = traceLimit + 1
    /\ Len(traceLog.traces) = traceLimit
    /\ traceLog.traces[1].id = 1
    /\ run.fired # <<>>

\* C35: after any sequence of builder operations (end() on several rule
\* builders in any order, end() calls that fail, end() called twice on one
\* builder) the rule at index i of the ruleset's list has order i: order
\* numbers are unique, start at 0 and strictly increase in finalization
\* order.
C35_OrderIsIndex ==
    /\ \A i \in DOMAIN rules : rules[i].order = i - 1
    /\ \A i, j \in DOMAIN rules : i < j => rules[i].order < rules[j].order
    /\ \A k \in {1, 2} :
          LET s == EngineOf(k).sortedRules
          IN  \A i, j \in DOMAIN s : i # j => s[i].order # s[j].order

\* end() was called twice on the first builder, after end() failed on a
\* second builder and succeeded on a third.
C35_Witness ==
    /\ thrown = NoError
    /\ ruleCalls = 3
    /\ Len(rules) = 3
    /\ rules[1].id = rules[3].id
    /\ rules[2].id = RuleIds[3]

\* The ids of the trace entries with matched true, in trace order.
MatchedIds(trace) ==
    LET hits == SelectSeq(trace, LAMBDA e : e.matched)
    IN  [k \in DOMAIN hits |-> hits[k].ruleId]

\* C36: in every RunResult, fired is the sequence of ruleIds of the trace
\* entries with matched true, in trace order; an entry has matched true
\* exactly when the rule was not skipped and every one of its conditions
\* evaluated true (always, for a rule without conditions); an entry with
\* matched false and no skippedReason ends with a condition trace whose
\* result is false.
C36_FiredIsMatched ==
    run.status = "done" =>
        /\ run.fired = MatchedIds(run.trace)
        /\ \A pos \in DOMAIN run.trace :
              LET e == run.trace[pos]
                  rule == EngineOf(run.of).sortedRules[pos]
                  unskipped == e.skippedReason = NoReason
              IN  /\ e.ruleId = rule.id
                  /\ e.matched <=>
                        /\ unskipped
                        /\ Len(e.conditions) = Len(rule.conditions)
                        /\ \A i \in DOMAIN e.conditions :
                              e.conditions[i].result
                  /\ ~unskipped => e.conditions = <<>>
                  /\ ~e.matched /\ unskipped =>
                        /\ e.conditions # <<>>
                        /\ ~e.conditions[Len(e.conditions)].result
                        /\ \A i \in 1..(Len(e.conditions) - 1) :
                              e.conditions[i].result

\* A result with a rule that fired after its action failed and was rolled
\* back, and a rule whose second condition was false.
C36_Witness ==
    /\ run.status = "done"
    /\ Len(run.trace) = 2
    /\ run.trace[1].matched
    /\ run.trace[1].error # NoError
    /\ ~run.trace[2].matched
    /\ Len(run.trace[2].conditions) = 2
    /\ run.fired = <<run.trace[1].ruleId>>

\* A result with a skipped rule and a rule without conditions that fired.
C36_SkippedAndEmpty ==
    /\ run.status = "done"
    /\ Len(run.trace) = 2
    /\ run.trace[1].skippedReason # NoReason
    /\ run.trace[2].matched
    /\ run.trace[2].conditions = <<>>
    /\ run.fired = <<run.trace[2].ruleId>>

\* ------------------------------------------- getSkipReason on its own

\* An optional list: absent, or the list given.
Absent == [present |-> FALSE, list |-> <<>>]
Listed(list) == [present |-> TRUE, list |-> list]

\* `meta?.tags ?? []`; an absent filter fails `includeTags &&` as an empty
\* one fails `.length > 0`.
OrEmpty(opt) == IF opt.present THEN opt.list ELSE <<>>

\* The tag lists of the calls: every list without repeats over two tags,
\* or no list.
SkipTagLists ==
    { <<>>, <<"vip">>, <<"beta">>, <<"vip", "beta">>, <<"beta", "vip">> }
SkipLists == {Absent} \cup { Listed(l) : l \in SkipTagLists }

\* rule.meta: undefined, or a RuleMeta with enabled and tags set or not.
SkipMetas ==
    { [present |-> FALSE, enabled |-> "unset", tags |-> Absent] }
    \cup [present : {TRUE}, enabled : {"unset", "true", "false"},
          tags : SkipLists]

\* getSkipReason(rule.meta, includeTags, excludeTags) on optional arguments.
skipReasonOf(args) ==
    getSkipReason(
        [enabled |-> IF args.meta.present THEN args.meta.enabled ELSE "unset",
         tags |-> OrEmpty(args.meta.tags)],
        OrEmpty(args.includeTags), OrEmpty(args.excludeTags))

InitSkip ==
    /\ rules = <<>>
    /\ nextOrder = 0
    /\ ruleCalls = 0
    /\ defaultEffectsFactory = Undef
    /\ validateFactsFn = Unset
    /\ validateEffectsFn = Unset
    /\ telemetryAdapter = Unset
    /\ thrown = NoError
    /\ engine = NoEngine
    /\ engine2 = NoEngine
    /\ run = NoRun
    /\ run2 = NoRun
    /\ merge = NoMerge
    /\ opEval = NoEval
    /\ registry = NoOperators
    /\ opCall = NoOpCall
    /\ fieldCall = NoField
    /\ traceLog = NoTraces
    /\ traceRegistry = NoRegistry
    /\ rulesets = <<>>
    /\ \E m \in SkipMetas, inc \in SkipLists, exc \in SkipLists :
          probe = [fn |-> "pending",
                   args |-> [meta |-> m, includeTags |-> inc,
                             excludeTags |-> exc],
                   out |-> NoReason]

\* The call of getSkipReason on the arguments drawn.
SkipCall ==
    /\ probe.fn = "pending"
    /\ probe' = [probe EXCEPT !.fn = "getSkipReason",
                              !.out = skipReasonOf(probe.args)]
    /\ UNCHANGED <<builder, thrown, engine, engine2, run, run2, traceLog,
                   merge, opEval, registry, opCall, fieldCall, traceRegistry,
                   rulesets>>

NextSkip == SkipCall

SpecSkip == InitSkip /\ [][NextSkip]_vars

\* The tags of an optional list, as a set.
TagSet(opt) == { OrEmpty(opt)[i] : i \in DOMAIN OrEmpty(opt) }

\* C38: the skip reason has the precedence disabled > tag-filtered >
\* tag-excluded. A disabled rule is 'disabled' whatever its tags and the
\* filters; of the enabled rules, one whose tags meet both includeTags and
\* excludeTags is 'tag-excluded', one whose tags miss a non-empty
\* includeTags is 'tag-filtered' even where they meet excludeTags, an
\* absent or empty filter gives no reason of its own, and a rule with no
\* tags is 'tag-filtered' under every non-empty includeTags and never
\* 'tag-excluded'.
C38_SkipPrecedence ==
    probe.fn = "getSkipReason" =>
        LET meta == probe.args.meta
            off == meta.present /\ meta.enabled = "false"
            tags == TagSet(meta.tags)
            inc == TagSet(probe.args.includeTags)
            exc == TagSet(probe.args.excludeTags)
        IN  /\ off => probe.out = "disabled"
            /\ ~off =>
                  /\ probe.out # "disabled"
                  /\ (tags \cap inc # {} /\ tags \cap exc # {})
                        => probe.out = "tag-excluded"
                  /\ (inc # {} /\ tags \cap inc = {})
                        => probe.out = "tag-filtered"
                  /\ inc = {} => probe.out # "tag-filtered"
                  /\ exc = {} => probe.out # "tag-excluded"
                  /\ (inc = {} /\ exc = {}) => probe.out = NoReason
                  /\ tags = {} => probe.out # "tag-excluded"
                  /\ (tags = {} /\ inc # {}) => probe.out = "tag-filtered"

\* A rule that is not disabled and whose tags meet both filters was given
\* 'tag-excluded'.
C38_Witness ==
    /\ probe.fn = "getSkipReason"
    /\ probe.args.meta.present
    /\ probe.args.meta.enabled = "true"
    /\ TagSet(probe.args.meta.tags) \cap TagSet(probe.args.includeTags) # {}
    /\ TagSet(probe.args.meta.tags) \cap TagSet(probe.args.excludeTags) # {}
    /\ probe.out = "tag-excluded"

\* A disabled rule with tags that miss the include filter and meet the
\* exclude filter was given 'disabled'.
C38_DisabledWithTags ==
    /\ probe.fn = "getSkipReason"
    /\ probe.args.meta.present
    /\ probe.args.meta.enabled = "false"
    /\ probe.args.meta.tags = Listed(<<"beta">>)
    /\ probe.args.includeTags = Listed(<<"vip">>)
    /\ probe.args.excludeTags = Listed(<<"beta">>)
    /\ probe.out = "disabled"

\* The rule at pos matched under activation "first" with rollbackOnError,
\* its action failed and the catch block swallowed the error; the run is
\* over.
RolledBackFirst(pos) ==
    /\ run.status = "done"
    /\ run.opts.activation = "first"
    /\ run.opts.rollbackOnError
    /\ Calls("caught", pos) # {}

\* The run ended at the rule at pos: it alone fired, it is the last rule
\* traced and nothing of a later rule was invoked.
EndedAt(pos) ==
    /\ run.fired = <<Sorted[pos].id>>
    /\ Len(run.trace) = pos
    /\ run.trace[pos].ruleId = Sorted[pos].id
    /\ run.trace[pos].matched
    /\ \A n \in DOMAIN run.calls : run.calls[n].pos <= pos

\* C39: with activation 'first' and rollbackOnError, a matched rule whose
\* action failed and was rolled back ends the run: its id is the only
\* element of fired, no later rule is evaluated, and the returned effects
\* are the effects the action was invoked on.
C39_RolledBackRuleEndsRun ==
    \A pos \in Positions :
        RolledBackFirst(pos) =>
            /\ EndedAt(pos)
            /\ Content(run) = EffAt("action", pos)

\* What does hold: the rolled-back rule ends the run and is the only rule
\* fired; the returned effects are the effects the action was invoked on
\* under effectsMode "immutable".
C39_EndsRunImmutableRestored ==
    \A pos \in Positions :
        RolledBackFirst(pos) =>
            /\ EndedAt(pos)
            /\ run.opts.effectsMode = "immutable" =>
                  Content(run) = EffAt("action", pos)

\* The first of two rules failed and was rolled back; the second would
\* have matched.
C39_LaterRuleLeftOut ==
    /\ RolledBackFirst(1)
    /\ Len(Sorted) = 2
    /\ NotSkipped(2) /\ AllTrue(Sorted[2].conditions)
    /\ Len(run.trace) = 1

\* The object the factory returned to the run: the first object of the
\* run's heap (a run called on an empty heap).
FactoryObject == 1

\* The action of the rule at pos was invoked and its patch was merged and
\* committed: the iteration ended without the catch block.
Succeeded(pos) ==
    /\ Calls("action", pos) # {}
    /\ Calls("caught", pos) = {}
    /\ Calls("end", pos) # {}

\* C37: under effectsMode 'immutable' the object the factory returned is
\* never modified and never handed to an action (every action works on an
\* object of its own), and effects is another object as soon as the action
\* of one rule has succeeded; under 'mutable' every action works on the
\* factory's object, and effects is that object from the start of the run
\* to its result.
C37_FactoryObjectFrame ==
    run.heap # <<>> =>
        /\ run.opts.effectsMode = "immutable" =>
              /\ run.heap[FactoryObject] = engine.defaultEffectsFactory
              /\ \A n \in DOMAIN run.execs :
                    /\ run.execs[n].working # FactoryObject
                    /\ \A k \in DOMAIN run.execs :
                          k # n => run.execs[k].working # run.execs[n].working
              /\ (\E pos \in Positions : Succeeded(pos))
                    => run.effects # FactoryObject
              /\ (\A pos \in Positions : ~Succeeded(pos))
                    => run.effects = FactoryObject
        /\ run.opts.effectsMode = "mutable" =>
              /\ run.effects = FactoryObject
              /\ \A n \in DOMAIN run.execs :
                    run.execs[n].working = FactoryObject

\* An immutable run has returned effects that differ from the factory's
\* object, which is as the factory made it.
C37_Witness ==
    /\ run.status = "done"
    /\ run.opts.effectsMode = "immutable"
    /\ \E pos \in Positions : Succeeded(pos)
    /\ run.effects # FactoryObject
    /\ Content(run) # run.heap[FactoryObject]
    /\ run.heap[FactoryObject] = engine.defaultEffectsFactory

\* A mutable run has returned the factory's object, changed by two actions.
C37_MutableShared ==
    /\ run.status = "done"
    /\ run.opts.effectsMode = "mutable"
    /\ Len(run.execs) = 2
    /\ run.effects = FactoryObject
    /\ Content(run) # engine.defaultEffectsFactory

\* ------------------------------- one run after another on one engine

FreshShapes ==
    { [conditions |-> <<CT>>, action |-> ActMutate, meta |-> NoMeta],
      [conditions |-> <<>>, action |-> ActThrow, meta |-> NoMeta],
      [conditions |-> <<>>, action |-> ActAsync, meta |-> NoMeta] }

FreshOptions ==
    { o \in TwiceOptions : o.activation = "all" /\ o.mergeStrategy = "assign" }

FreshEndRule ==
    /\ ~engine.compiled
    /\ Len(rules) < MaxRules
    /\ \E shape \in FreshShapes : End(0, shape)

\* The number of the next run and the heap it is called on: the first run
\* on an empty heap, the second once the first is over, while the objects
\* of the first exist.
FreshNext(n, heap) ==
    \/ n = 1 /\ run.status = "idle" /\ heap = <<>>
    \/ /\ n = 2
       /\ run.status \in {"done", "threw"}
       /\ run2.status = "idle"
       /\ heap = run.heap

\* engine.run(input)
FreshRun ==
    LET input == RunInput(engine, validateFactsFn, validateEffectsFn,
                          telemetryAdapter)
    IN  /\ engine.compiled
        /\ \E n \in {1, 2}, opts \in FreshOptions :
              \E heap \in {<<>>, run.heap} :
                  /\ FreshNext(n, heap)
                  /\ StepRun(n, [runSyncOn(input, opts, heap) EXCEPT !.of = 1])

\* engine.runAsync(input): to its first await, or to its end.
FreshRunAsync ==
    LET input == RunInput(engine, validateFactsFn, validateEffectsFn,
                          telemetryAdapter)
    IN  /\ engine.compiled
        /\ \E n \in {1, 2}, opts \in FreshOptions :
              \E heap \in {<<>>, run.heap} :
                  /\ FreshNext(n, heap)
                  /\ StepRun(n, [asyncLoop(StartRun("runAsync", opts, input,
                                                    heap), input.rules)
                                   EXCEPT !.of = 1])

NextFresh ==
    \/ DefaultEffectsCall
    \/ ValidateFactsCall
    \/ FreshEndRule
    \/ Compile
    \/ FreshRun
    \/ FreshRunAsync
    \/ ConcResume
    \/ ConcSettle

SpecFresh == Init /\ [][NextFresh]_vars

\* The calls of the factory a run has made.
FactoryCalls(r) == { n \in DOMAIN r.calls : r.calls[n].k = "factory" }

\* The effects objects a run has held or handed to an action.
ObjectsOf(r) ==
    {r.effects} \cup { r.execs[n].working : n \in DOMAIN r.execs }

\* The run called the factory once, before anything else but the facts
\* validator, and started from the object it returned, which held what the
\* factory makes.
StartedFresh(r) ==
    /\ Cardinality(FactoryCalls(r)) = 1
    /\ \A n \in FactoryCalls(r) :
          /\ r.calls[n].eff = engine.defaultEffectsFactory
          /\ \A k \in 1..(n - 1) : r.calls[k].k = "validateFacts"

\* Two runs of the engine share no effects object.
Unshared == ObjectsOf(run) \cap ObjectsOf(run2) = {}

\* C33 as claimed: every run invokes the default-effects factory exactly
\* once and starts from the object it returns, and no effects object of one
\* run is an effects object of another run of the engine, in either
\* effectsMode.
C33_EveryRunCallsFactory ==
    /\ \A n \in {1, 2} : RunOf(n).status # "idle" => StartedFresh(RunOf(n))
    /\ (run.status # "idle" /\ run2.status # "idle") => Unshared

\* C33 as amended: every run whose facts the validator did not reject
\* invokes the factory exactly once and starts from the object it returns
\* (a run aborted by the facts validator never invokes it and has no
\* effects), and no effects object of one run is an effects object of
\* another run of the engine, in either effectsMode.
C33_ValidatedRunCallsFactory ==
    /\ \A n \in {1, 2} :
          RunOf(n).status # "idle" =>
              IF validateFactsFn = "reject"
              THEN /\ FactoryCalls(RunOf(n)) = {}
                   /\ RunOf(n).status = "threw"
                   /\ RunOf(n).error = FactsInvalid
                   /\ RunOf(n).heap = <<>>
              ELSE StartedFresh(RunOf(n))
    /\ (run.status # "idle" /\ run2.status # "idle"
          /\ validateFactsFn # "reject") => Unshared

\* A mutable run and then an immutable run of the engine are over; the
\* first changed its effects, the second started from a new object.
C33_Witness ==
    /\ run.status = "done" /\ run.opts.effectsMode = "mutable"
    /\ run2.status = "done" /\ run2.opts.effectsMode = "immutable"
    /\ Content(run) # engine.defaultEffectsFactory
    /\ StartedFresh(run2)
    /\ Unshared

\* ------------------------------------------------------ explainTrace

\* " ".repeat(indent)
RECURSIVE Pad(_)
Pad(indent) == IF indent = 0 THEN "" ELSE " " \o Pad(indent - 1)

\* parts.join(sep)
RECURSIVE JoinWith(_, _)
JoinWith(parts, sep) ==
    IF parts = <<>> THEN ""
    ELSE IF Len(parts) = 1 THEN parts[1]
    ELSE parts[1] \o sep \o JoinWith(Tail(parts), sep)

\* formatValue(value): a string in double quotes, else String(value) (of
\* an array: its elements joined by ",").
formatValue(value) ==
    CASE value.t = "str" -> "\"" \o value.v \o "\""
      [] value.t = "arr" ->
           JoinWith([n \in DOMAIN value.v |-> ToText(value.v[n])], ",")
      [] OTHER -> ToText(value)

\* formatCondition(condition): the result, the label, then the reason code
\* and the comparison where the trace has them ("" reads as not set).
formatCondition(condition) ==
    LET parts == <<"[" \o (IF condition.result THEN "true" ELSE "false")
                       \o "]",
                   condition.label>>
        parts1 == IF condition.reasonCode # ""
                  THEN Append(parts, "{reason: " \o condition.reasonCode
                                         \o "}")
                  ELSE parts
        parts2 == IF condition.op # ""
                  THEN Append(parts1,
                              "(" \o formatValue(condition.left) \o " "
                                  \o condition.op \o " "
                                  \o formatValue(condition.right) \o ")")
                  ELSE parts1
    IN  JoinWith(parts2, " ")

\* A renderer that leaves the children of a composite out.
renderConditionAlone(condition, indent) ==
    <<Pad(indent) \o "- " \o formatCondition(condition)>>

\* renderCondition(condition, indent): the line of the condition, then the
\* lines of its children, two columns further in.
RECURSIVE renderCondition(_, _)
RECURSIVE renderChildren(_, _, _)
renderChildren(children, indent, i) ==
    IF i > Len(children) THEN <<>>
    ELSE renderCondition(children[i], indent)
            \o renderChildren(children, indent, i + 1)
renderCondition(condition, indent) ==
    <<Pad(indent) \o "- " \o formatCondition(condition)>>
        \o renderChildren(condition.children, indent + 2, 1)

\* The lines explainTrace pushes for one RuleTrace.
ruleLines(rule) ==
    LET tags == IF Len(rule.meta.tags) > 0
                THEN " [tags: " \o JoinWith(rule.meta.tags, ", ") \o "]"
                ELSE ""
        reason == IF rule.meta.reasonCode # ""
                  THEN " [reason: " \o rule.meta.reasonCode \o "]"
                  ELSE ""
        skipped == IF rule.skippedReason # NoReason
                   THEN " (skipped: " \o rule.skippedReason \o ")"
                   ELSE ""
    IN  <<"- Rule " \o rule.ruleId \o ": "
              \o (IF rule.matched THEN "matched" ELSE "skipped")
              \o skipped \o tags \o reason>>
        \o renderChildren(rule.conditions, 2, 1)
        \o [n \in DOMAIN rule.notes |-> "  - note: " \o rule.notes[n]]

\* explainTrace(trace, name): the lines it joins with "\n" (name "" reads
\* as no name).
RECURSIVE explainRules(_, _)
explainRules(trace, i) ==
    IF i > Len(trace) THEN <<>>
    ELSE ruleLines(trace[i]) \o explainRules(trace, i + 1)
explainTrace(trace, name) ==
    <<IF name # "" THEN "Ruleset " \o name ELSE "Ruleset">>
        \o explainRules(trace, 1)

\* Condition traces: of condition(label, test) without and with details, of
\* field(...).eq(...), of op.and, and of op.or over it (a composite's trace
\* has the operator as op and the labels of its children as left).
PlainCond ==
    [label |-> "condition", result |-> FALSE, reasonCode |-> "", op |-> "",
     left |-> Undef, right |-> Undef, children |-> <<>>]
AgeCond ==
    [label |-> "age >= 18", result |-> TRUE, reasonCode |-> "COND_AGE",
     op |-> ">=", left |-> Str("20"), right |-> Str("18"), children |-> <<>>]
EqCond ==
    [label |-> "user.age == undefined", result |-> FALSE, reasonCode |-> "",
     op |-> "==", left |-> Num(30), right |-> Undef, children |-> <<>>]
GroupCond ==
    [label |-> "flag group", result |-> FALSE, reasonCode |-> "", op |-> "and",
     left |-> Arr(<<Str("age >= 18"), Str("condition")>>), right |-> Undef,
     children |-> <<AgeCond, PlainCond>>]
OuterCond ==
    [label |-> "or", result |-> FALSE, reasonCode |-> "", op |-> "or",
     left |-> Arr(<<Str("flag group"), Str("user.age == undefined")>>),
     right |-> Undef, children |-> <<GroupCond, EqCond>>]

NoRuleMeta == [tags |-> <<>>, reasonCode |-> ""]

\* The rule traces a run may hand to explain(): matched, unmatched at a
\* condition, skipped, rolled back; with and without tags and reason code.
ExplainRules ==
    { [ruleId |-> "adult", matched |-> TRUE, skippedReason |-> NoReason,
       meta |-> NoRuleMeta, conditions |-> <<AgeCond>>,
       notes |-> <<"age check passed">>],
      [ruleId |-> "flagged", matched |-> TRUE, skippedReason |-> NoReason,
       meta |-> [tags |-> <<"audit">>, reasonCode |-> "RULE_FLAG"],
       conditions |-> <<AgeCond>>, notes |-> <<"flag hit", "second">>],
      [ruleId |-> "minor", matched |-> FALSE, skippedReason |-> NoReason,
       meta |-> NoRuleMeta, conditions |-> <<AgeCond, OuterCond>>,
       notes |-> <<>>],
      [ruleId |-> "off", matched |-> FALSE, skippedReason |-> "disabled",
       meta |-> [tags |-> <<"a", "b">>, reasonCode |-> ""],
       conditions |-> <<>>, notes |-> <<>>],
      [ruleId |-> "other", matched |-> FALSE,
       skippedReason |-> "tag-filtered", meta |-> NoRuleMeta,
       conditions |-> <<>>, notes |-> <<>>],
      [ruleId |-> "broken", matched |-> TRUE, skippedReason |-> NoReason,
       meta |-> [tags |-> <<>>, reasonCode |-> "RULE_B"],
       conditions |-> <<>>, notes |-> <<"error: Error: boom">>] }

\* The longest trace explained.
MaxTrace == 2

ExplainTraces == UNION { [1..n -> ExplainRules] : n \in 0..MaxTrace }

InitExplain ==
    /\ rules = <<>>
    /\ nextOrder = 0
    /\ ruleCalls = 0
    /\ defaultEffectsFactory = Undef
    /\ validateFactsFn = Unset
    /\ validateEffectsFn = Unset
    /\ telemetryAdapter = Unset
    /\ thrown = NoError
    /\ engine = NoEngine
    /\ engine2 = NoEngine
    /\ run = NoRun
    /\ run2 = NoRun
    /\ merge = NoMerge
    /\ opEval = NoEval
    /\ registry = NoOperators
    /\ opCall = NoOpCall
    /\ fieldCall = NoField
    /\ traceLog = NoTraces
    /\ traceRegistry = NoRegistry
    /\ rulesets = <<>>
    /\ \E trace \in ExplainTraces, name \in {"", "trace-demo"} :
          probe = [fn |-> "pending", args |-> [trace |-> trace, name |-> name],
                   out |-> <<>>]

\* result.explain()
ExplainCall ==
    /\ probe.fn = "pending"
    /\ probe' = [probe EXCEPT !.fn = "explain",
                              !.out = explainTrace(probe.args.trace,
                                                   probe.args.name)]
    /\ UNCHANGED <<builder, thrown, engine, engine2, run, run2, traceLog,
                   merge, opEval, registry, opCall, fieldCall, traceRegistry,
                   rulesets>>

NextExplain == ExplainCall

SpecExplain == InitExplain /\ [][NextExplain]_vars

\* The conditions of a list with their children, in evaluation order, each
\* with its depth.
RECURSIVE Nested(_, _, _)
Nested(conditions, depth, i) ==
    IF i > Len(conditions) THEN <<>>
    ELSE <<[depth |-> depth, condition |-> conditions[i]]>>
            \o Nested(conditions[i].children, depth + 1, 1)
            \o Nested(conditions, depth, i + 1)

\* The lines of one RuleTrace: the rule line (closed by `suffix`), one line
\* per condition, nested, and one line per note.
StatedRule(rule, suffix) ==
    LET conds == Nested(rule.conditions, 1, 1)
    IN  <<"- Rule " \o rule.ruleId
              \o (IF rule.matched THEN ": matched" ELSE ": skipped")
              \o (IF rule.skippedReason # NoReason
                  THEN " (skipped: " \o rule.skippedReason \o ")" ELSE "")
              \o suffix>>
        \o [n \in DOMAIN conds |->
              Pad(2 * conds[n].depth) \o "- "
                  \o formatCondition(conds[n].condition)]
        \o [n \in DOMAIN rule.notes |-> "  - note: " \o rule.notes[n]]

\* The tags and the reason code of the rule, as the rule line carries them.
MetaSuffix(rule) ==
    (IF rule.meta.tags # <<>>
     THEN " [tags: " \o JoinWith(rule.meta.tags, ", ") \o "]" ELSE "")
    \o (IF rule.meta.reasonCode # ""
        THEN " [reason: " \o rule.meta.reasonCode \o "]" ELSE "")

RECURSIVE StatedRules(_, _, _)
StatedRules(trace, i, withMeta) ==
    IF i > Len(trace) THEN <<>>
    ELSE StatedRule(trace[i], IF withMeta THEN MetaSuffix(trace[i]) ELSE "")
            \o StatedRules(trace, i + 1, withMeta)

Header == IF probe.args.name # "" THEN "Ruleset " \o probe.args.name
          ELSE "Ruleset"

C34_NestedAndSkipped ==
    /\ probe.fn = "explain"
    /\ probe.out =
          << "Ruleset",
             "- Rule minor: skipped",
             "  - [true] age >= 18 {reason: COND_AGE} (\"20\" >= \"18\")",
             "  - [false] or "
                 \o "(flag group,user.age == undefined or undefined)",
             "    - [false] flag group "
                 \o "(age >= 18,condition and undefined)",
             "      - [true] age >= 18 {reason: COND_AGE} (\"20\" >= \"18\")",
             "      - [false] condition",
             "    - [false] user.age == undefined (30 == undefined)",
             "- Rule off: skipped (skipped: disabled) [tags: a, b]" >>

\* The history holds the last min(n, traceLimit) of the n runs recorded so
\* far, oldest first.
Window ==
    LET n == traceLog.traceCounter
        list == listTraces(traceLog)
    IN  /\ Len(list) <= traceLimit
        /\ Len(list) = IF n < traceLimit THEN n ELSE traceLimit
        /\ \A k \in DOMAIN list : list[k].id = n - Len(list) + k - 1

\* A step that records a run appends it; with traceLimit runs stored, it
\* drops the oldest one and nothing else.
Recording ==
    traceLog'.traceCounter = traceLog.traceCounter + 1 =>
        LET newest == [id |-> traceLog.traceCounter, fired |-> run'.fired,
                       trace |-> run'.trace]
        IN  listTraces(traceLog') =
                IF Len(traceLog.traces) = traceLimit
                THEN Append(Tail(listTraces(traceLog)), newest)
                ELSE Append(listTraces(traceLog), newest)

\* C32: the registry keeps a rolling window of the ruleset's traces: the
\* history never exceeds traceLimit (25) runs, recording a run when 25 are
\* stored drops the oldest one, and listTraces returns the most recent
\* min(n, 25) of the n recorded runs in recording order.
C32_RollingWindow == [] Window /\ [][Recording]_vars

\* Twenty-six runs have been recorded: the history holds the last
\* twenty-five of them.
C32_Witness ==
    /\ traceLog.traceCounter = traceLimit + 1
    /\ Len(listTraces(traceLog)) = traceLimit
    /\ listTraces(traceLog)[1].id = 1
    /\ listTraces(traceLog)[traceLimit].id = traceLimit
    /\ listTraces(traceLog)[traceLimit].fired = run.fired

\* ------------------------------------- the registry of all rulesets

\* The most rulesets made, and the most runs recorded since the last
\* clear().
MaxRulesets == 2
MaxTraces == 2

\* The names ruleset(name) is called with: none, a plain name, and a name
\* that reads like a registry id.
RulesetNames == {"", "a", "ruleset-0"}

\* makeId(): `ruleset-${counter++}`
makeId(counter) == "ruleset-" \o ToString(counter)

\* registry.register(source, name): a new entry under a new id; the name,
\* if any, now leads to it.
registryRegister(reg, name) ==
    LET id == makeId(reg.counter)
    IN  [reg EXCEPT
           !.counter = @ + 1,
           !.entries = (id :> [id |-> id, name |-> name, traces |-> <<>>])
                           @@ @,
           !.nameIndex = IF name # "" THEN (name :> id) @@ @ ELSE @]

\* getEntry(idOrName): the id of the entry found (by id, else by name), ""
\* for undefined.
getEntry(reg, idOrName) ==
    IF idOrName \in DOMAIN reg.entries THEN idOrName
    ELSE IF idOrName \in DOMAIN reg.nameIndex
              /\ reg.nameIndex[idOrName] \in DOMAIN reg.entries
         THEN reg.nameIndex[idOrName]
         ELSE ""

\* registry.recordTrace(idOrName, trace, fired, facts) on the whole
\* registry: nothing without an entry, else the run is pushed to the
\* entry's window.
registryRecordTrace(reg, idOrName, trace, fired) ==
    LET id == getEntry(reg, idOrName)
        log == recordTrace([NoTraces EXCEPT
                              !.traces = reg.entries[id].traces,
                              !.traceCounter = reg.traceCounter],
                           trace, fired)
    IN  IF id = "" THEN reg
        ELSE [reg EXCEPT !.traceCounter = log.traceCounter,
                         !.entries[id].traces = log.traces]

\* registry.clear()
clear(reg) ==
    [reg EXCEPT !.entries = <<>>, !.nameIndex = <<>>, !.traceCounter = 0]

\* The engine of a builder made by ruleset(name): one rule, named after the
\* builder's registry id, that matches and changes the effects.
EngineOfBuilder(b) ==
    [NoEngine EXCEPT
       !.compiled = TRUE,
       !.defaultEffectsFactory = DefaultEffects,
       !.sortedRules =
           <<MakeRule(b.registryId, 0,
                      [conditions |-> <<CT>>, action |-> ActMutate,
                       meta |-> NoMeta], 0)>>]

\* The registry after a step that took a run of builder b from `before` to
\* `after`: `if (registryId) registry.recordTrace(registryId, ...)`.
reported(reg, b, before, after) ==
    IF after.recorded > before.recorded
    THEN registryRecordTrace(reg, b.registryId, after.trace, after.fired)
    ELSE reg

\* ruleset(name): a builder registered under a new id, with defaultEffects
\* and its rule.
RulesetCall ==
    /\ Len(rulesets) < MaxRulesets
    /\ \E name \in RulesetNames :
          /\ traceRegistry' = registryRegister(traceRegistry, name)
          /\ rulesets' = Append(rulesets,
                                [name |-> name,
                                 registryId |-> makeId(traceRegistry.counter),
                                 compiled |-> "no"])
    /\ UNCHANGED <<builder, thrown, engine, engine2, run, run2, traceLog,
                   merge, opEval, registry, opCall, fieldCall, probe>>

\* compile() on a builder; `compiled` keeps whether its entry was in the
\* registry then.
RulesetCompile ==
    /\ \E k \in DOMAIN rulesets :
          /\ rulesets[k].compiled = "no"
          /\ rulesets' =
                [rulesets EXCEPT ![k].compiled =
                    IF rulesets[k].registryId \in DOMAIN traceRegistry.entries
                    THEN "registered" ELSE "cleared"]
    /\ UNCHANGED <<builder, thrown, engine, engine2, run, run2, traceLog,
                   merge, opEval, registry, opCall, fieldCall, probe,
                   traceRegistry>>

\* engine.run(input) on the engine of a builder.
RulesetRun ==
    /\ run.status # "running"
    /\ traceRegistry.traceCounter < MaxTraces
    /\ \E k \in DOMAIN rulesets :
          /\ rulesets[k].compiled # "no"
          /\ LET e == EngineOfBuilder(rulesets[k])
                 r == [runSync(RunInput(e, Unset, Unset, Unset), NoOpts)
                         EXCEPT !.of = k]
             IN  /\ run' = r
                 /\ traceRegistry' =
                       reported(traceRegistry, rulesets[k], NoRun, r)
    /\ UNCHANGED <<builder, thrown, engine, engine2, run2, traceLog,
                   merge, opEval, registry, opCall, fieldCall, probe,
                   rulesets>>

\* engine.runAsync(input) on the engine of a builder, to its first await.
RulesetRunAsync ==
    /\ run.status # "running"
    /\ traceRegistry.traceCounter < MaxTraces
    /\ \E k \in DOMAIN rulesets :
          /\ rulesets[k].compiled # "no"
          /\ LET input == RunInput(EngineOfBuilder(rulesets[k]), Unset,
                                   Unset, Unset)
                 r == [asyncLoop(StartRun("runAsync", NoOpts, input, <<>>),
                                 input.rules) EXCEPT !.of = k]
             IN  /\ run' = r
                 /\ traceRegistry' =
                       reported(traceRegistry, rulesets[k], NoRun, r)
    /\ UNCHANGED <<builder, thrown, engine, engine2, run2, traceLog,
                   merge, opEval, registry, opCall, fieldCall, probe,
                   rulesets>>

\* The continuation of the runAsync after its await.
RulesetResume ==
    /\ run.status = "running"
    /\ run.awaiting # 0
    /\ awaitSettled(run.execs[run.awaiting])
    /\ LET b == rulesets[run.of]
           r == asyncResume(run, EngineOfBuilder(b).sortedRules)
       IN  /\ run' = r
           /\ traceRegistry' = reported(traceRegistry, b, run, r)
    /\ UNCHANGED <<builder, thrown, engine, engine2, run2, traceLog,
                   merge, opEval, registry, opCall, fieldCall, probe,
                   rulesets>>

\* registry.clear()
RegistryClear ==
    /\ traceRegistry' = clear(traceRegistry)
    /\ UNCHANGED <<builder, thrown, engine, engine2, run, run2, traceLog,
                   merge, opEval, registry, opCall, fieldCall, probe,
                   rulesets>>

NextRulesets ==
    \/ RulesetCall
    \/ RulesetCompile
    \/ RulesetRun
    \/ RulesetRunAsync
    \/ RulesetResume
    \/ RegistryClear

SpecRulesets == Init /\ [][NextRulesets]_vars

\* The ids of the trace runs stored in the registry, entry by entry.
StoredIn(id) ==
    { traceRegistry.entries[id].traces[n].id :
        n \in DOMAIN traceRegistry.entries[id].traces }

\* Every run stored in a history is a run of the engine of that ruleset's
\* builder (its rule is named after the builder's id).
OwnRunsOnly ==
    \A id \in DOMAIN traceRegistry.entries :
        \A n \in DOMAIN traceRegistry.entries[id].traces :
            LET stored == traceRegistry.entries[id].traces[n]
            IN  /\ stored.fired = <<id>>
                /\ stored.trace[1].ruleId = id

\* No two trace runs stored at one time have the same id.
TraceIdsDistinct ==
    /\ \A id \in DOMAIN traceRegistry.entries :
          Cardinality(StoredIn(id)) = Len(traceRegistry.entries[id].traces)
    /\ \A a, b \in DOMAIN traceRegistry.entries :
          a # b => StoredIn(a) \cap StoredIn(b) = {}

\* Ruleset ids are never reused: the builders made so far have the ids
\* ruleset-0, ruleset-1, ... in the order they were made.
IdsNeverReused ==
    \A k \in DOMAIN rulesets : rulesets[k].registryId = makeId(k - 1)

\* C40: after any sequence of ruleset(), compile, run, runAsync and
\* registry.clear(), every trace run stored in a ruleset's history is a run
\* of the engine of that very ruleset, with shared names and after clear()
\* and new registrations too, and the ids of the trace runs stored at one
\* time are pairwise distinct.
C40_OwnHistoryOnly == OwnRunsOnly /\ TraceIdsDistinct /\ IdsNeverReused

\* What holds: ids are never reused and trace ids are distinct; and every
\* stored run is in its own ruleset's history as long as no ruleset is
\* named like the id of a cleared one.
C40_OwnHistoryUnlessNamedLikeId ==
    /\ TraceIdsDistinct
    /\ IdsNeverReused
    /\ (\A k \in DOMAIN rulesets :
           \A j \in DOMAIN rulesets : rulesets[k].name # rulesets[j].registryId)
          => OwnRunsOnly

\* Two rulesets share the name "a"; each history holds a run of its own
\* engine; the name leads to the later one.
C40_SharedName ==
    /\ Len(rulesets) = 2
    /\ rulesets[1].name = "a" /\ rulesets[2].name = "a"
    /\ DOMAIN traceRegistry.entries = {"ruleset-0", "ruleset-1"}
    /\ Len(traceRegistry.entries["ruleset-0"].traces) = 1
    /\ Len(traceRegistry.entries["ruleset-1"].traces) = 1
    /\ getEntry(traceRegistry, "a") = "ruleset-1"
    /\ OwnRunsOnly

\* What a finished run returned.
ResultOf(r) ==
    [status |-> r.status, effects |-> Content(r), fired |-> r.fired,
     trace |-> r.trace]

\* The run that is over returned what runSync returns for its engine.
SameResult ==
    run.status \in {"done", "threw"} =>
        ResultOf(run) =
            ResultOf(runSync(RunInput(EngineOfBuilder(rulesets[run.of]),
                                      Unset, Unset, Unset), run.opts))

\* A step records a run only while the entry of the run's ruleset is in the
\* registry.
RecordsOnlyRegistered ==
    traceRegistry'.traceCounter > traceRegistry.traceCounter =>
        rulesets[run'.of].registryId \in DOMAIN traceRegistry.entries

\* C31: the RunResult does not depend on the registry: run() and runAsync()
\* on an engine whose ruleset's entry registry.clear() has removed
\* (compiled before or after the clear) complete with the effects, fired
\* and trace they have with the entry present, and record nothing.
C31_RunsWithoutEntry == [] SameResult /\ [][RecordsOnlyRegistered]_vars

\* What holds: the result never depends on the registry.
C31_ResultUnchanged == SameResult

\* A run of an engine compiled after clear() removed its entry is done, and
\* the registry is empty.
C31_ClearedRunDone ==
    /\ run.status = "done"
    /\ run.entry = "runAsync"
    /\ rulesets[run.of].compiled = "cleared"
    /\ traceRegistry.entries = <<>>
    /\ traceRegistry.traceCounter = 0
====
